---- MODULE Spec2Model ----
(***************************************************************************)
(* A model of the hyperbolic update kernel of ryujin:                      *)
(*   - SynchronizationDispatch (source/openmp.h) inside one parallel pass, *)
(*   - the control flow of HyperbolicModule::step() across MPI ranks,      *)
(*   - passes 1 and 2 (d_ij, symmetrization, diagonal, tau_max),           *)
(*   - pass 4 and the limiter sweeps (l_ij, p_ij, high-order update).      *)
(* Every part has its own specification; the variables of the other parts  *)
(* are parked at a fixed value.                                            *)
(***************************************************************************)
EXTENDS Integers, Sequences, FiniteSets, TLC

(* ------------------------------------------------------------------ *)
(* Bounds of the model                                                 *)
(* ------------------------------------------------------------------ *)

\* largest OpenMP team
MaxThreads == 2
\* largest number of locally owned rows in the dispatch model
MaxRows == 4
\* at most this many constrained rows (row_length == 1) in the dispatch model
MaxConstrained == 1

\* VectorizedArray<Number>::size(): the number of rows of one SIMD group
simd_length == 2

Min2(a, b) == IF a <= b THEN a ELSE b
Max2(a, b) == IF a >= b THEN a ELSE b

(* ------------------------------------------------------------------ *)
(* Part 1: SynchronizationDispatch inside one parallel pass            *)
(* ------------------------------------------------------------------ *)

VARIABLES
  num_threads,        \* omp_get_num_threads() of the parallel region
  n_export_indices,   \* offline_data_->n_export_indices()
  n_internal,         \* offline_data_->n_locally_internal()
  n_owned,            \* offline_data_->n_locally_owned()
  constrained,        \* the loop indices i with sparsity_simd.row_length(i) == 1
  hiding,             \* USE_COMMUNICATION_HIDING is defined in this build
  flag_scope,         \* "region": thread_ready lives outside the loop lambda (pass 0)
                      \* "loop": it is re-created by every call of the lambda
  owner,              \* the thread that "omp for" hands loop index i to
  tpc,                \* per thread: "scalar", "simd" (the two loop calls), "joined"
  tstage,             \* per thread: "idle", or "fire" (inside check(), about to run the payload)
  tcur,               \* per thread: the loop index it is working on (-1: none)
  started,            \* the loop indices whose iteration has begun
  rowDone,            \* the loop indices whose iteration is complete
  thread_ready,       \* per thread: the thread-local flag handed to check()
  n_threads_ready,    \* SynchronizationDispatch::n_threads_ready_
  executed_payload_,  \* SynchronizationDispatch::executed_payload_
  payload_calls,      \* how often payload_() ran
  fired_by,           \* "none", "check", "destructor"
  n_increments,       \* per thread: how often it incremented n_threads_ready_
  dpc                 \* "region": inside the parallel region; "destroyed": after ~SynchronizationDispatch

\* the team and the index ranges, which the parts on passes of step() share
meshVars == <<num_threads, n_internal, n_owned, constrained>>

dispatchVars == <<n_export_indices, hiding, flag_scope, owner, tpc, tstage, tcur, started,
                  rowDone, thread_ready, n_threads_ready, executed_payload_, payload_calls,
                  fired_by, n_increments, dpc>>

dispVars == <<meshVars, dispatchVars>>

VARIABLES
  limiter_iter_,           \* parameter "limiter iterations"
  check_bounds,            \* CHECK_BOUNDS is defined in this build
  id_violation_strategy_,  \* "warn" or "raise_exception"
  n_restarts_,
  n_warnings_,
  spc,                     \* the place of the rank inside step()
  pass,                    \* the counter of the limiter loop
  tau_in,                  \* the argument tau of this call
  tau,                     \* the local variable tau
  tau_max,                 \* std::atomic<Number> tau_max
  restart_needed,          \* std::atomic<bool> restart_needed
  channel,                 \* the mpi tag counter
  dispatch_fired,          \* executed_payload_ of the dispatch object of the current pass
  halo,                    \* per exchanged object: "idle" or "pending"
  ghost_fresh,             \* per exchanged object: its ghost entries hold what the owners wrote last
  n_started,               \* per object: exchanges started in this call
  n_finished,              \* per object: exchanges finished in this call
  tags,                    \* the exchanges started in this call, in order: <<object, tag>>
  halo_fault,              \* a finish without a pending start, or a start on a pending exchange
  stale_read,              \* a pass read ghost entries that were not up to date
  tau_used,                \* the tau that pass 3 computed with (-1: pass 3 did not run)
  passes_run,              \* the passes entered in this call, in order
  failed_at,               \* the passes in which a limit() call failed in this call
  result,                  \* "idle", "prepared", "applied", "running", "returned", "restart", "fatal"
  ret,                     \* the value returned (-1: none)
  n_steps,                 \* step() calls so far
  restarts_at_entry,       \* n_restarts_ when the current call began
  warnings_at_entry,       \* n_warnings_ when the current call began
  thrown_restarts,         \* calls that ended by throwing Restart
  flagged_returns          \* calls that returned normally with the restart flag set

stepVars == <<limiter_iter_, check_bounds, id_violation_strategy_, n_restarts_, n_warnings_,
              spc, pass, tau_in, tau, tau_max, restart_needed, channel, dispatch_fired,
              halo, ghost_fresh, n_started, n_finished, tags, halo_fault, stale_read,
              tau_used, passes_run, failed_at, result, ret, n_steps, restarts_at_entry,
              warnings_at_entry, thrown_restarts, flagged_returns>>

\* Part 3: step() on several MPI ranks
VARIABLES
  n_ranks,            \* the size of mpi_communicator_
  rank_strategy,      \* id_violation_strategy_, the same on every rank (SPMD)
  rank_limiter_iter,  \* limiter_iter_, the same on every rank
  rpc,                \* per rank: its place in step()
  rank_tau_max,       \* per rank: its atomic tau_max
  rank_restart,       \* per rank: its atomic restart_needed
  min_sent,           \* per rank: what it handed to Utilities::MPI::min (-1: nothing yet)
  or_sent,            \* per rank: what it handed to Utilities::MPI::logical_or ("none": nothing yet)
  rank_pass3,         \* per rank: it entered the region of step 3
  rank_n_warnings,    \* per rank: n_warnings_
  rank_n_restarts     \* per rank: n_restarts_

rankVars == <<n_ranks, rank_strategy, rank_limiter_iter, rpc, rank_tau_max, rank_restart,
              min_sent, or_sent, rank_pass3, rank_n_warnings, rank_n_restarts>>

\* the sparsity pattern, which the parts on the matrices share
VARIABLES
  n_relevant,               \* the rows of the sparsity pattern, owned and ghost
  columns                   \* sparsity_simd.columns(i): per row, its column indices

patternVars == <<n_relevant, columns>>

\* Part 4: steps 1 and 2 of step() on the rows of one rank
VARIABLES
  est_a,                    \* the one-sided estimate |c_ij| * lambda_max(U_i, U_j, n_ij)
                            \*   of an edge is 1 + ((i + 1) \div 2 + est_a * j) % MaxD
  boundary,                 \* the rows in offline_data_->boundary_map()
  cfl_with_boundary_dofs_,
  coupling_boundary_pairs,  \* pairs <<i, col_idx>>
  dij_matrix_,              \* per row, per column position: the stored value
  qpc,                      \* "pass1", "pairs", "symm", "done"
  iter_done,                \* the loop indices of step 1 that have run
  pairs_done,               \* the entries of coupling_boundary_pairs that have run
  row_taken,                \* the rows of the symmetrize loop handed to a thread
  row_finished,             \* the rows of the symmetrize loop that are complete
  wphase,                   \* per thread: "idle", "cols", "cas"
  wrow,                     \* per thread: its row i
  wcol,                     \* per thread: its col_idx
  d_sum,                    \* per thread: the local d_sum
  wtau,                     \* per thread: the local tau
  current_tau_max,          \* per thread: the local current_tau_max
  dij_tau_max,              \* std::atomic<Number> tau_max of this call
  n_spurious,               \* spurious failures of compare_exchange_weak so far
  tau_max_raised,           \* a store has replaced tau_max by a larger value
  offered                   \* per row: the tau it offered to the reduction (0: none)

dijVars == <<est_a, boundary, cfl_with_boundary_dofs_,
             coupling_boundary_pairs, dij_matrix_, qpc, iter_done, pairs_done, row_taken,
             row_finished, wphase, wrow, wcol, d_sum, wtau, current_tau_max, dij_tau_max,
             n_spurious, tau_max_raised, offered>>

\* Part 5: step 4 and the limiter sweeps on two ranks
VARIABLES
  sweep_limiter_iter,   \* limiter_iter_, at least 1
  lim_a,                \* the coefficient limit() returns for an edge in a round is
  lim_b,                \*   ((lim_a * i + lim_b * j + round) % (LDen + 1)) / LDen
  lij_matrix_,          \* per rank, per row, per column position; in units of 1 / One
  lij_matrix_next_,     \* the same
  sweep_pc,             \* "pass4", "sweep", "done"
  sweep_round,          \* the counter of the limiter loop
  sweep_rows_done,      \* the rows whose iteration of the current region has run
  applied               \* per row, per column position: the coefficient the current
                        \*   sweep multiplied p_ij with (-1: the row has not run)

sweepVars == <<sweep_limiter_iter, lim_a, lim_b, lij_matrix_, lij_matrix_next_, sweep_pc,
               sweep_round, sweep_rows_done, applied>>

\* Part 6: the storage of the module over prepare(), step() and new offline data
VARIABLES
  offline_n,            \* offline_data_: the size of the scalar partitioner (owned and ghost)
  matrix_keeps,         \* whether SparseMatrixSIMD::reinit keeps entries (resize) or zeroes them
  storage,              \* per vector and matrix of the module: its entries
  mod_cfl,              \* cfl_
  mod_strategy,         \* id_violation_strategy_
  mod_counters,         \* <<n_restarts_, n_warnings_>>
  calls                 \* the member functions called so far, in order

prepVars == <<offline_n, matrix_keeps, storage, mod_cfl, mod_strategy, mod_counters, calls>>

\* Part 7: apply_boundary_conditions() on two ranks
VARIABLES
  bc_t,                 \* the argument t
  boundary_map,         \* per rank: offline_data_->boundary_map(), as <<i, id>> in iteration order
  bc_U,                 \* per rank, per DOF: the entry of U (owned or ghost)
  bc_pos,               \* per rank: the number of entries of boundary_map the loop has handled
  bc_pc,                \* per rank: "loop", "sent" (inside update_ghost_values), "done"
  bc_sent               \* per rank: the owned entries it exported (<<>>: nothing yet)

bcVars == <<bc_t, boundary_map, bc_U, bc_pos, bc_pc, bc_sent>>

\* Part 8: the memory accesses of the threads in the loops of step()
VARIABLES
  race_k,               \* limiter_iter_
  race_phase,           \* the loop between two barriers: "p0", "p1", "pairs", "symm", "p3",
                        \*   "p4", "sweep"; "done"
  race_round,           \* the counter of the limiter loop
  race_done,            \* the iterations of the loop that have run
  race_w,               \* per thread: the locations it wrote in this loop
  race_r,               \* per thread: the locations it read in this loop
  race_x                \* the locations read through another row in this loop, by any thread

raceVars == <<race_k, race_phase, race_round, race_done, race_w, race_r, race_x>>

\* Part 9: the values one call of step() computes, in exact arithmetic
VARIABLES upd_in, upd_pc, upd_round, upd_dij, upd_tau_max, upd_tau,
          upd_new_U, upd_r, upd_pij, upd_lij, upd_lij_next
updVars == <<upd_in, upd_pc, upd_round, upd_dij, upd_tau_max, upd_tau,
             upd_new_U, upd_r, upd_pij, upd_lij, upd_lij_next>>

\* Part 10: a MultiComponentVector and the scalar vectors of its components
VARIABLES mcv_cfg, mcv_this, mcv_prev, mcv_v, mcv_w, mcv_last, mcv_imported, mcv_ops
mcvVars == <<mcv_cfg, mcv_this, mcv_prev, mcv_v, mcv_w, mcv_last, mcv_imported, mcv_ops>>

\* Part 11: one row of pass 3 of step(), in floating-point arithmetic
VARIABLES
  bar_in,               \* the row: its stored d_ij, the states, c_ij, alpha_i and tau
  bar_col,              \* col_idx of the loop over the row
  bar_U_i_new,          \* U_i_new
  bar_r_i,              \* r_i, in units of 1/2
  bar_pc                \* "row", "done"
barVars == <<bar_in, bar_col, bar_U_i_new, bar_r_i, bar_pc>>

\* Part 12: the bounds of one Limiter over reset, accumulate and apply_relaxation
VARIABLES
  limiter_in,           \* the precomputed values of row i and eos_interpolation_b
  limiter_pc,           \* "new", "accumulate", "relaxed"
  bounds_,              \* [rho_min, rho_max, s_min, gamma_min]
  relaxation,           \* [numerator, denominator, s_interp_max]: rho_relaxation_numerator,
                        \*   rho_relaxation_denominator and s_interp_max
  accumulated,          \* [rho, s]: the densities of the bar states and the entropies
                        \*   (s_j, s_bar_ij) handed to accumulate so far
  n_accumulated         \* the number of calls of accumulate
limiterVars == <<limiter_in, limiter_pc, bounds_, relaxation, accumulated, n_accumulated>>

\* Part 13: create_vector_partitioner<n_comp> on one scalar partitioner
VARIABLES
  scalar_partitioner,   \* [size, owned, ghost]: size(), locally_owned_range() and
                        \*   ghost_indices() of the argument
  part_n_comp,          \* the template argument n_comp
  vector_owned_set,     \* the IndexSet of the same name, as the set of its indices
  vector_ghost_set,     \* the same
  part_pc,              \* "owned", "ghost" (the two loops), "done"
  part_it,              \* the intervals the running loop has handled
  vector_partitioner    \* the partitioner returned (<<>>: none yet)
partVars == <<scalar_partitioner, part_n_comp, vector_owned_set, vector_ghost_set, part_pc,
              part_it, vector_partitioner>>

lateVars == <<mcvVars, barVars, limiterVars, partVars>>

extraVars == <<prepVars, bcVars, raceVars, updVars, lateVars>>

vars == <<meshVars, patternVars, dispatchVars, stepVars, rankVars, dijVars, sweepVars, extraVars>>

\* what the actions of each part leave alone
DispatchFrame == UNCHANGED <<patternVars, stepVars, rankVars, dijVars, sweepVars, extraVars>>
StepFrame == UNCHANGED <<dispVars, patternVars, rankVars, dijVars, sweepVars, extraVars>>
RankFrame == UNCHANGED <<dispVars, patternVars, stepVars, dijVars, sweepVars, extraVars>>
DijFrame == UNCHANGED <<meshVars, patternVars, dispatchVars, stepVars, rankVars, sweepVars, extraVars>>
SweepFrame == UNCHANGED <<meshVars, patternVars, dispatchVars, stepVars, rankVars, dijVars, extraVars>>
PrepFrame == UNCHANGED <<meshVars, patternVars, dispatchVars, stepVars, rankVars, dijVars, sweepVars, bcVars, raceVars, updVars, lateVars>>
BcFrame == UNCHANGED <<meshVars, patternVars, dispatchVars, stepVars, rankVars, dijVars, sweepVars, prepVars, raceVars, updVars, lateVars>>
RaceFrame == UNCHANGED <<meshVars, patternVars, dispatchVars, stepVars, rankVars, dijVars, sweepVars, prepVars, bcVars, updVars, lateVars>>
UpdFrame == UNCHANGED <<meshVars, patternVars, dispatchVars, stepVars, rankVars, dijVars, sweepVars, prepVars, bcVars, raceVars, lateVars>>
\* the variables of the parts 1 to 9
earlyVars == <<meshVars, patternVars, dispatchVars, stepVars, rankVars, dijVars, sweepVars,
               prepVars, bcVars, raceVars, updVars>>
McvFrame == UNCHANGED <<earlyVars, barVars, limiterVars, partVars>>
BarFrame == UNCHANGED <<earlyVars, mcvVars, limiterVars, partVars>>
LimiterFrame == UNCHANGED <<earlyVars, mcvVars, barVars, partVars>>
PartFrame == UNCHANGED <<earlyVars, mcvVars, barVars, limiterVars>>

Threads == 1..num_threads

\* loop(Number(), n_internal, n_owned): stride 1
ScalarIters == n_internal..(n_owned - 1)
\* loop(VA(), 0, n_internal): stride simd_length
SimdIters == {i \in 0..(n_internal - 1) : i % simd_length = 0}

ItersOf(loop) == IF loop = "scalar" THEN ScalarIters ELSE SimdIters

\* a second argument of check() without the bound of the SIMD range
DispatchConditionPastExport(i) == i >= n_export_indices

\* a second argument of check() that does not wait for the export rows
DispatchConditionAnyRow(i) == i < n_internal

\* the second argument of check(): i >= n_export_indices && i < n_internal
DispatchCondition(i) == i >= n_export_indices /\ i < n_internal

\* the iterations of its current loop a thread still has to run
Remaining(t) == {i \in ItersOf(tpc[t]) : owner[i] = t /\ i \notin started}

MinOf(S) == CHOOSE x \in S : \A y \in S : x <= y

\* The threads of a team are interchangeable: of the assignments of loop indices
\* to threads that differ only by renaming threads, the one that numbers the
\* threads in the order of their first index is kept.
CanonicalOwner(f) ==
  \A i \in DOMAIN f :
    \/ f[i] = 1
    \/ \E j \in DOMAIN f : j < i /\ f[j] = f[i] - 1

InitDispatch ==
  /\ num_threads \in 1..MaxThreads
  /\ n_owned \in 1..MaxRows
  /\ n_internal \in {n \in 0..n_owned : n % simd_length = 0}
  /\ n_export_indices \in 0..n_owned
  /\ constrained \in {c \in SUBSET (0..(n_owned - 1)) : Cardinality(c) <= MaxConstrained}
  /\ hiding \in BOOLEAN
  /\ flag_scope \in {"region", "loop"}
  /\ owner \in {f \in [ScalarIters \cup SimdIters -> 1..num_threads] : CanonicalOwner(f)}
  /\ tpc = [t \in 1..num_threads |-> "scalar"]
  /\ tstage = [t \in 1..num_threads |-> "idle"]
  /\ tcur = [t \in 1..num_threads |-> -1]
  /\ started = {}
  /\ rowDone = {}
  /\ thread_ready = [t \in 1..num_threads |-> FALSE]
  /\ n_threads_ready = 0
  /\ executed_payload_ = FALSE
  /\ payload_calls = 0
  /\ fired_by = "none"
  /\ n_increments = [t \in 1..num_threads |-> 0]
  /\ dpc = "region"

\* a pass with communication hiding over a range long enough for every thread
\* of a team to own a SIMD group past the export rows
InitDispatchWide ==
  /\ num_threads \in 1..MaxThreads
  /\ n_owned = MaxRows + 3
  /\ n_internal \in {n \in (n_owned - 3)..n_owned : n % simd_length = 0}
  /\ n_export_indices \in 0..n_internal
  /\ constrained \in {c \in SUBSET (0..(n_owned - 1)) :
                        Cardinality(c) <= MaxConstrained /\ \A i \in c : i >= n_internal}
  /\ hiding = TRUE
  /\ flag_scope \in {"region", "loop"}
  /\ owner \in {f \in [ScalarIters \cup SimdIters -> 1..num_threads] : CanonicalOwner(f)}
  /\ tpc = [t \in 1..num_threads |-> "scalar"]
  /\ tstage = [t \in 1..num_threads |-> "idle"]
  /\ tcur = [t \in 1..num_threads |-> -1]
  /\ started = {}
  /\ rowDone = {}
  /\ thread_ready = [t \in 1..num_threads |-> FALSE]
  /\ n_threads_ready = 0
  /\ executed_payload_ = FALSE
  /\ payload_calls = 0
  /\ fired_by = "none"
  /\ n_increments = [t \in 1..num_threads |-> 0]
  /\ dpc = "region"

meshVarsD == <<num_threads, n_export_indices, n_internal, n_owned, constrained,
               hiding, flag_scope, owner>>

\* check(thread_ready, condition) enters its if-block
CheckTaken(t, i) == hiding /\ ~thread_ready[t] /\ DispatchCondition(i)

\* One iteration of the "omp for" loop: the skip of a constrained row, the call
\* of check(), and the body of the row. When check() finds that the counter has
\* reached the team size, the thread stops at "fire" before the payload.
Iteration(t) ==
  /\ DispatchFrame
  /\ dpc = "region"
  /\ tpc[t] \in {"scalar", "simd"}
  /\ tstage[t] = "idle"
  /\ Remaining(t) # {}
  /\ LET i == MinOf(Remaining(t)) IN
       /\ started' = started \cup {i}
       /\ IF i \in constrained
            THEN /\ rowDone' = rowDone \cup {i}
                 /\ UNCHANGED <<thread_ready, n_threads_ready, n_increments, tstage, tcur>>
            ELSE IF CheckTaken(t, i)
              THEN /\ thread_ready' = [thread_ready EXCEPT ![t] = TRUE]
                   /\ n_threads_ready' = n_threads_ready + 1
                   /\ n_increments' = [n_increments EXCEPT ![t] = @ + 1]
                   /\ IF n_threads_ready + 1 = num_threads
                        THEN /\ tstage' = [tstage EXCEPT ![t] = "fire"]
                             /\ tcur' = [tcur EXCEPT ![t] = i]
                             /\ UNCHANGED rowDone
                        ELSE /\ rowDone' = rowDone \cup {i}
                             /\ UNCHANGED <<tstage, tcur>>
              ELSE /\ rowDone' = rowDone \cup {i}
                   /\ UNCHANGED <<thread_ready, n_threads_ready, n_increments, tstage, tcur>>
  /\ UNCHANGED <<meshVarsD, tpc, executed_payload_, payload_calls, fired_by, dpc>>

\* executed_payload_ = true; payload_(); and then the body of the row
FirePayload(t) ==
  /\ DispatchFrame
  /\ dpc = "region"
  /\ tstage[t] = "fire"
  /\ executed_payload_' = TRUE
  /\ payload_calls' = payload_calls + 1
  /\ fired_by' = "check"
  /\ rowDone' = rowDone \cup {tcur[t]}
  /\ tstage' = [tstage EXCEPT ![t] = "idle"]
  /\ tcur' = [tcur EXCEPT ![t] = -1]
  /\ UNCHANGED <<meshVarsD, tpc, started, thread_ready, n_threads_ready, n_increments, dpc>>

\* The scalar loop is "nowait": a thread that has run its share calls the
\* lambda again for the SIMD range. Pass 0 keeps thread_ready across the two
\* calls, the other passes declare it inside the lambda.
NextLoop(t) ==
  /\ DispatchFrame
  /\ dpc = "region"
  /\ tpc[t] = "scalar"
  /\ tstage[t] = "idle"
  /\ Remaining(t) = {}
  /\ tpc' = [tpc EXCEPT ![t] = "simd"]
  /\ thread_ready' = IF flag_scope = "loop"
                       THEN [thread_ready EXCEPT ![t] = FALSE]
                       ELSE thread_ready
  /\ UNCHANGED <<meshVarsD, tstage, tcur, started, rowDone, n_threads_ready,
                 executed_payload_, payload_calls, fired_by, n_increments, dpc>>

\* RYUJIN_PARALLEL_REGION_END for one thread
Join(t) ==
  /\ DispatchFrame
  /\ dpc = "region"
  /\ tpc[t] = "simd"
  /\ tstage[t] = "idle"
  /\ Remaining(t) = {}
  /\ tpc' = [tpc EXCEPT ![t] = "joined"]
  /\ UNCHANGED <<meshVarsD, tstage, tcur, started, rowDone, thread_ready, n_threads_ready,
                 executed_payload_, payload_calls, fired_by, n_increments, dpc>>

\* a destructor that forgets to test executed_payload_
DestructorAlways ==
  /\ DispatchFrame
  /\ dpc = "region"
  /\ \A t \in Threads : tpc[t] = "joined"
  /\ payload_calls' = payload_calls + 1
  /\ fired_by' = "destructor"
  /\ dpc' = "destroyed"
  /\ UNCHANGED <<meshVarsD, tpc, tstage, tcur, started, rowDone, thread_ready,
                 n_threads_ready, executed_payload_, n_increments>>

\* ~SynchronizationDispatch(), at the end of the scope that holds the region
Destructor ==
  /\ DispatchFrame
  /\ dpc = "region"
  /\ \A t \in Threads : tpc[t] = "joined"
  /\ IF ~executed_payload_
       THEN /\ payload_calls' = payload_calls + 1
            /\ fired_by' = "destructor"
       ELSE UNCHANGED <<payload_calls, fired_by>>
  /\ dpc' = "destroyed"
  /\ UNCHANGED <<meshVarsD, tpc, tstage, tcur, started, rowDone, thread_ready,
                 n_threads_ready, executed_payload_, n_increments>>

NextDispatch ==
  \/ \E t \in Threads : Iteration(t)
  \/ \E t \in Threads : FirePayload(t)
  \/ \E t \in Threads : NextLoop(t)
  \/ \E t \in Threads : Join(t)
  \/ Destructor


\* the variables of this part when another part is run
ParkMesh == num_threads = 0 /\ n_internal = 0 /\ n_owned = 0 /\ constrained = {}

ParkDispatchState ==
  /\ n_export_indices = 0
  /\ hiding = FALSE /\ flag_scope = "region" /\ owner = <<>>
  /\ tpc = <<>> /\ tstage = <<>> /\ tcur = <<>> /\ started = {} /\ rowDone = {}
  /\ thread_ready = <<>> /\ n_threads_ready = 0 /\ executed_payload_ = FALSE
  /\ payload_calls = 0 /\ fired_by = "none" /\ n_increments = <<>> /\ dpc = "parked"

ParkDispatch == ParkMesh /\ ParkDispatchState

ParkPattern == n_relevant = 0 /\ columns = <<>>

(* ------------------------------------------------------------------ *)
(* Part 2: the control flow of HyperbolicModule::step() on one rank    *)
(* ------------------------------------------------------------------ *)

\* most step() calls in one run
MaxSteps == 2
\* largest value of the parameter "limiter iterations"
MaxLimiterIter == 3
\* largest finite step size
MaxTau == 2

\* std::numeric_limits<Number>::infinity(), larger than every finite step size
Inf == 99
NegInf == 0 - Inf

HaloObjects == {"indicator_precomputed_values_", "limiter_precomputed_values_",
                "alpha_", "r_", "lij_matrix_", "lij_matrix_next_"}

\* what the atomic tau_max can hold after pass 2, and what MPI::min can add
TauVals == {NegInf} \cup (0..MaxTau) \cup {Inf}

IsInf(x) == x = Inf \/ x = NegInf

\* the constructor, lines 33-41
InitStep ==
  /\ limiter_iter_ \in 0..MaxLimiterIter
  /\ check_bounds \in BOOLEAN
  /\ id_violation_strategy_ = "warn"
  /\ n_restarts_ = 0
  /\ n_warnings_ = 0
  /\ spc = "constructed"
  /\ pass = 0
  /\ tau_in = 0
  /\ tau = 0
  /\ tau_max = Inf
  /\ restart_needed = FALSE
  /\ channel = 10
  /\ dispatch_fired = FALSE
  /\ halo = [o \in HaloObjects |-> "idle"]
  /\ ghost_fresh = [o \in HaloObjects |-> FALSE]
  /\ n_started = [o \in HaloObjects |-> 0]
  /\ n_finished = [o \in HaloObjects |-> 0]
  /\ tags = <<>>
  /\ halo_fault = FALSE
  /\ stale_read = FALSE
  /\ tau_used = -1
  /\ passes_run = <<>>
  /\ failed_at = {}
  /\ result = "idle"
  /\ ret = -1
  /\ n_steps = 0
  /\ restarts_at_entry = 0
  /\ warnings_at_entry = 0
  /\ thrown_restarts = 0
  /\ flagged_returns = 0

ParkStep ==
  /\ limiter_iter_ = 0 /\ check_bounds = FALSE /\ id_violation_strategy_ = "warn"
  /\ n_restarts_ = 0 /\ n_warnings_ = 0 /\ spc = "parked" /\ pass = 0 /\ tau_in = 0
  /\ tau = 0 /\ tau_max = 0 /\ restart_needed = FALSE /\ channel = 0
  /\ dispatch_fired = FALSE /\ halo = <<>> /\ ghost_fresh = <<>> /\ n_started = <<>>
  /\ n_finished = <<>> /\ tags = <<>> /\ halo_fault = FALSE /\ stale_read = FALSE
  /\ tau_used = 0 /\ passes_run = <<>> /\ failed_at = {} /\ result = "parked" /\ ret = 0
  /\ n_steps = 0 /\ restarts_at_entry = 0 /\ warnings_at_entry = 0
  /\ thrown_restarts = 0 /\ flagged_returns = 0

configVars == <<limiter_iter_, check_bounds>>
counterVars == <<n_restarts_, n_warnings_, thrown_restarts, flagged_returns>>
entryVars == <<n_steps, restarts_at_entry, warnings_at_entry, tau_in, id_violation_strategy_>>
haloVars == <<halo, n_started, n_finished, tags, halo_fault, channel>>

IsLastRound(ps) == (ps + 1 = limiter_iter_)

\* a payload of step 3 that is not guarded by limiter_iter_ != 0
PayloadOfUnguarded(p, ps) ==
  CASE p = "p0" -> <<"indicator_precomputed_values_", "limiter_precomputed_values_">>
    [] p = "p1" -> <<"alpha_">>
    [] p = "p3" -> <<"r_">>
    [] p = "p4" -> <<"lij_matrix_">>
    [] p = "sweep" -> IF ~IsLastRound(ps) THEN <<"lij_matrix_next_">> ELSE <<>>
    [] OTHER -> <<>>

\* the payload of the dispatch object of pass p (ps: the counter of the limiter loop)
PayloadOf(p, ps) ==
  CASE p = "p0" -> <<"indicator_precomputed_values_", "limiter_precomputed_values_">>
    [] p = "p1" -> <<"alpha_">>
    [] p = "p3" -> IF limiter_iter_ # 0 THEN <<"r_">> ELSE <<>>
    [] p = "p4" -> <<"lij_matrix_">>
    [] p = "sweep" -> IF ~IsLastRound(ps) THEN <<"lij_matrix_next_">> ELSE <<>>
    [] OTHER -> <<>>

\* the objects whose ghost entries the loops of pass p read, through js or
\* through the transposed index
GhostReadsOf(p) ==
  CASE p = "p1" -> {"indicator_precomputed_values_"}
    [] p = "p3" -> {"alpha_", "limiter_precomputed_values_"}
    [] p = "p4" -> {"r_", "alpha_"}
    [] p = "sweep" -> {"lij_matrix_"}
    [] OTHER -> {}

\* the objects whose owned entries the loops of pass p write
WritesOf(p, ps) ==
  CASE p = "p0" -> {"indicator_precomputed_values_", "limiter_precomputed_values_"}
    [] p = "p1" -> {"alpha_"}
    [] p = "p3" -> {"r_"}
    [] p = "p4" -> {"lij_matrix_"}
    [] p = "sweep" -> IF ~IsLastRound(ps) THEN {"lij_matrix_next_"} ELSE {}
    [] OTHER -> {}

RECURSIVE SetAll(_, _, _)
SetAll(f, objs, v) ==
  IF objs = <<>> THEN f ELSE SetAll([f EXCEPT ![Head(objs)] = v], Tail(objs), v)

RECURSIVE Incremented(_, _)
Incremented(n, objs) ==
  IF objs = <<>> THEN n ELSE Incremented([n EXCEPT ![Head(objs)] = @ + 1], Tail(objs))

\* the loops that write new_U: step 3 (line 554) and every sweep (line 799)
WritesNewU(p) == p \in {"p3", "sweep"}

\* a step 3 that updates the state in the vector it reads
WrittenInOldU(p) ==
  CASE p = "p0" -> {"indicator_precomputed_values_", "limiter_precomputed_values_"}
    [] p = "p1" -> {"alpha_", "dij_matrix_"}
    [] p = "p2" -> {"dij_matrix_"}
    [] p = "p3" -> {"old_U", "r_", "bounds_"}
    [] p = "p4" -> {"pij_matrix_", "lij_matrix_"}
    [] p = "sweep" -> {"old_U", "lij_matrix_next_", "pij_matrix_"}
    [] OTHER -> {}

\* every vector and matrix the loops of pass p write, the arguments of
\* step() included: lines 216-220 (step 0), 323 and 328 (step 1), 375, 400
\* and 407 (step 2), 554-559 (step 3), 690-699 (step 4), 799 and 838-846
\* (sweep)
WrittenIn(p) ==
  CASE p = "p0" -> {"indicator_precomputed_values_", "limiter_precomputed_values_"}
    [] p = "p1" -> {"alpha_", "dij_matrix_"}
    [] p = "p2" -> {"dij_matrix_"}
    [] p = "p3" -> {"new_U", "r_", "bounds_"}
    [] p = "p4" -> {"pij_matrix_", "lij_matrix_"}
    [] p = "sweep" -> {"new_U", "lij_matrix_next_", "pij_matrix_"}
    [] OTHER -> {}

\* exchanges started with the value of channel, and channel left as it is
StartExchangesSameTag(objs) ==
  /\ halo' = SetAll(halo, objs, "pending")
  /\ n_started' = Incremented(n_started, objs)
  /\ tags' = tags \o [k \in 1..Len(objs) |-> <<objs[k], channel>>]
  /\ channel' = channel
  /\ halo_fault' = (halo_fault \/ \E k \in 1..Len(objs) : halo[objs[k]] = "pending")

\* update_ghost_values_start(channel++) / update_ghost_rows_start(channel++) for
\* the objects of the sequence objs, in order
StartExchanges(objs) ==
  /\ halo' = SetAll(halo, objs, "pending")
  /\ n_started' = Incremented(n_started, objs)
  /\ tags' = tags \o [k \in 1..Len(objs) |-> <<objs[k], channel + k - 1>>]
  /\ channel' = channel + Len(objs)
  /\ halo_fault' = (halo_fault \/ \E k \in 1..Len(objs) : halo[objs[k]] = "pending")

\* std::swap(lij_matrix_, lij_matrix_next_) on a per-object function
Swapped(f) == [f EXCEPT !["lij_matrix_"] = f["lij_matrix_next_"],
                        !["lij_matrix_next_"] = f["lij_matrix_"]]

\* update_ghost_values_finish() / update_ghost_rows_finish() for the objects of
\* objs (and the swap of the two l_ij matrices when swap is set), and then the
\* region of pass p begins: its loops read ghost entries and overwrite owned ones.
Proceed(objs, swap, p, ps) ==
  LET h1 == SetAll(halo, objs, "idle")
      g0 == SetAll(ghost_fresh, objs, TRUE)
      g1 == IF swap THEN Swapped(g0) ELSE g0
  IN
  /\ halo' = h1
  /\ n_finished' = Incremented(n_finished, objs)
  /\ halo_fault' = (halo_fault \/ \E k \in 1..Len(objs) : halo[objs[k]] # "pending")
  /\ stale_read' = (stale_read \/ \E o \in GhostReadsOf(p) : ~g1[o] \/ h1[o] = "pending")
  /\ ghost_fresh' = [o \in HaloObjects |-> IF o \in WritesOf(p, ps) THEN FALSE ELSE g1[o]]
  /\ spc' = p
  /\ pass' = ps
  /\ dispatch_fired' = FALSE
  /\ passes_run' = IF p = "final" THEN passes_run ELSE Append(passes_run, p)
  /\ UNCHANGED <<n_started, tags, channel>>

\* the end of the region of a pass with a dispatch object: its destructor runs
\* the payload unless check() did
EndRegion(next) ==
  /\ spc' = next
  /\ dispatch_fired' = TRUE
  /\ IF dispatch_fired
       THEN UNCHANGED <<halo, n_started, tags, channel, halo_fault>>
       ELSE StartExchanges(PayloadOf(spc, pass))

\* a prepare() that sets both counters to zero
PrepareResets ==
  /\ StepFrame
  /\ spc \in {"constructed", "idle"}
  /\ spc' = "idle"
  /\ result' = "prepared"
  /\ ghost_fresh' = [o \in HaloObjects |-> FALSE]
  /\ n_restarts_' = 0
  /\ n_warnings_' = 0
  /\ UNCHANGED <<configVars, thrown_restarts, flagged_returns, entryVars, pass, tau, tau_max,
                 restart_needed, dispatch_fired, haloVars, stale_read, tau_used, passes_run,
                 failed_at, ret>>

\* prepare(), lines 69-98: the vectors and matrices of the module are
\* allocated anew; the counters, the strategy and the parameters are not touched
Prepare ==
  /\ StepFrame
  /\ spc \in {"constructed", "idle"}
  /\ spc' = "idle"
  /\ result' = "prepared"
  /\ ghost_fresh' = [o \in HaloObjects |-> FALSE]
  /\ UNCHANGED <<configVars, counterVars, entryVars, pass, tau, tau_max, restart_needed,
                 dispatch_fired, haloVars, stale_read, tau_used, passes_run, failed_at, ret>>

\* apply_boundary_conditions(), lines 905-947: a const member that writes to
\* the vector it is handed and to nothing of the module
ApplyBoundaryConditions ==
  /\ StepFrame
  /\ spc = "idle"
  /\ result' = "applied"
  /\ UNCHANGED <<configVars, counterVars, entryVars, spc, pass, tau, tau_max, restart_needed,
                 dispatch_fired, haloVars, ghost_fresh, stale_read, tau_used, passes_run,
                 failed_at, ret>>

\* step() is called: lines 134-178, and the region of step 0 begins
StepEntry ==
  /\ StepFrame
  /\ spc = "idle"
  /\ n_steps < MaxSteps
  /\ n_steps' = n_steps + 1
  /\ \E s \in {"warn", "raise_exception"} : id_violation_strategy_' = s
  /\ \E t \in 0..(MaxTau + 1) : tau_in' = t /\ tau' = t
  /\ restarts_at_entry' = n_restarts_
  /\ warnings_at_entry' = n_warnings_
  /\ channel' = 10
  /\ restart_needed' = FALSE
  /\ tau_max' = Inf
  /\ pass' = 0
  /\ n_started' = [o \in HaloObjects |-> 0]
  /\ n_finished' = [o \in HaloObjects |-> 0]
  /\ tags' = <<>>
  /\ tau_used' = -1
  /\ failed_at' = {}
  /\ result' = "running"
  /\ ret' = -1
  /\ spc' = "p0"
  /\ dispatch_fired' = FALSE
  /\ passes_run' = <<"p0">>
  /\ ghost_fresh' = [o \in HaloObjects |-> IF o \in WritesOf("p0", 0) THEN FALSE ELSE ghost_fresh[o]]
  /\ UNCHANGED <<configVars, counterVars, halo, halo_fault, stale_read>>

\* The payload of the pass runs from check(), inside the loop.
PayloadEarly ==
  /\ StepFrame
  /\ spc \in {"p0", "p1", "p3", "p4", "sweep"}
  /\ ~dispatch_fired
  /\ dispatch_fired' = TRUE
  /\ StartExchanges(PayloadOf(spc, pass))
  /\ UNCHANGED <<configVars, counterVars, entryVars, spc, pass, tau, tau_max, restart_needed,
                 ghost_fresh, n_finished, stale_read, tau_used, passes_run, failed_at,
                 result, ret>>

\* end of the region of step 0, lines 229-231
Pass0End ==
  /\ StepFrame
  /\ spc = "p0"
  /\ EndRegion("p0sync")
  /\ UNCHANGED <<configVars, counterVars, entryVars, pass, tau, tau_max, restart_needed,
                 ghost_fresh, n_finished, stale_read, tau_used, passes_run, failed_at,
                 result, ret>>

\* lines 240-241, then the region of step 1 begins
Sync0 ==
  /\ StepFrame
  /\ spc = "p0sync"
  /\ Proceed(<<"indicator_precomputed_values_", "limiter_precomputed_values_">>, FALSE, "p1", 0)
  /\ UNCHANGED <<configVars, counterVars, entryVars, tau, tau_max, restart_needed,
                 tau_used, failed_at, result, ret>>

\* end of the region of step 1, lines 337-339; the region of step 2 follows at
\* once, the exchange of alpha still pending
Pass1End ==
  /\ StepFrame
  /\ spc = "p1"
  /\ EndRegion("p2")
  /\ passes_run' = Append(passes_run, "p2")
  /\ UNCHANGED <<configVars, counterVars, entryVars, pass, tau, tau_max, restart_needed,
                 ghost_fresh, n_finished, stale_read, tau_used, failed_at, result, ret>>

\* The region of step 2, lines 345-422: the compare-exchange loops of the
\* threads leave the minimum of infinity and the candidates of this rank.
Pass2 ==
  /\ StepFrame
  /\ spc = "p2"
  /\ \E v \in TauVals : tau_max' = v
  /\ spc' = "p2sync"
  /\ UNCHANGED <<configVars, counterVars, entryVars, pass, tau, restart_needed, dispatch_fired,
                 haloVars, ghost_fresh, stale_read, tau_used, passes_run, failed_at,
                 result, ret>>

\* lines 428-431: the finish of alpha, and Utilities::MPI::min with what the
\* other ranks hold (Inf when there is no other rank)
Sync2 ==
  /\ StepFrame
  /\ spc = "p2sync"
  /\ \E others \in TauVals : tau_max' = Min2(tau_max, others)
  /\ halo' = SetAll(halo, <<"alpha_">>, "idle")
  /\ ghost_fresh' = SetAll(ghost_fresh, <<"alpha_">>, TRUE)
  /\ n_finished' = Incremented(n_finished, <<"alpha_">>)
  /\ halo_fault' = (halo_fault \/ halo["alpha_"] # "pending")
  /\ spc' = "p2assert"
  /\ UNCHANGED <<configVars, counterVars, entryVars, pass, tau, restart_needed, dispatch_fired,
                 n_started, tags, channel, stale_read, tau_used, passes_run, failed_at,
                 result, ret>>

\* the condition of the AssertThrow of lines 433-436 (tau_max is never NaN: the
\* loop of line 414 stores a candidate only when current_tau_max > tau holds)
TauMaxAccepted(v) == ~IsInf(v) /\ v > 0

\* a step size clamped to tau_max
ChosenTauClamped(t, tmax) == IF t = 0 THEN tmax ELSE Min2(t, tmax)

\* line 438
ChosenTau(t, tmax) == IF t = 0 THEN tmax ELSE t

\* lines 433-438, and then the region of step 3 begins
AssertTau ==
  /\ StepFrame
  /\ spc = "p2assert"
  /\ IF TauMaxAccepted(tau_max)
       THEN /\ tau' = ChosenTau(tau, tau_max)
            /\ tau_used' = ChosenTau(tau, tau_max)
            /\ Proceed(<<>>, FALSE, "p3", 0)
            /\ UNCHANGED <<result>>
       ELSE /\ result' = "fatal"
            /\ spc' = "crashed"
            /\ UNCHANGED <<tau, tau_used, haloVars, ghost_fresh, stale_read, pass,
                           dispatch_fired, passes_run>>
  /\ UNCHANGED <<configVars, counterVars, entryVars, tau_max, restart_needed, failed_at, ret>>

\* end of the region of step 3, lines 568-570
Pass3End ==
  /\ StepFrame
  /\ spc = "p3"
  /\ EndRegion("p3sync")
  /\ UNCHANGED <<configVars, counterVars, entryVars, pass, tau, tau_max, restart_needed,
                 ghost_fresh, n_finished, stale_read, tau_used, passes_run, failed_at,
                 result, ret>>

\* a finish of r that is not guarded by limiter_iter_ != 0
Sync3Unguarded ==
  /\ StepFrame
  /\ spc = "p3sync"
  /\ Proceed(<<"r_">>, FALSE, IF limiter_iter_ # 0 THEN "p4" ELSE "final", 0)
  /\ UNCHANGED <<configVars, counterVars, entryVars, tau, tau_max, restart_needed,
                 tau_used, failed_at, result, ret>>

\* lines 580-591: the finish of r and the region of step 4, both only for
\* limiter_iter_ != 0; otherwise the limiter loop of line 735 runs no pass
Sync3 ==
  /\ StepFrame
  /\ spc = "p3sync"
  /\ IF limiter_iter_ # 0
       THEN Proceed(<<"r_">>, FALSE, "p4", 0)
       ELSE Proceed(<<>>, FALSE, "final", 0)
  /\ UNCHANGED <<configVars, counterVars, entryVars, tau, tau_max, restart_needed,
                 tau_used, failed_at, result, ret>>

\* a failed limit() call that leaves the loops at once
LimitFailsAborts ==
  /\ StepFrame
  /\ \/ spc = "p4"
     \/ spc = "sweep" /\ (~IsLastRound(pass) \/ check_bounds)
  /\ restart_needed' = TRUE
  /\ failed_at' = failed_at \cup {<<spc, pass>>}
  /\ spc' = "final"
  /\ UNCHANGED <<configVars, counterVars, entryVars, pass, tau, tau_max, dispatch_fired,
                 haloVars, ghost_fresh, stale_read, tau_used, passes_run, result, ret>>

\* a limit() call of the running pass returns success == false (lines 702-703
\* and 824-825), or the state written by a sweep is not admissible (lines
\* 793-797, with CHECK_BOUNDS)
LimitFails ==
  /\ StepFrame
  /\ \/ spc = "p4"
     \/ spc = "sweep" /\ (~IsLastRound(pass) \/ check_bounds)
  /\ restart_needed' = TRUE
  /\ failed_at' = failed_at \cup {<<spc, pass>>}
  /\ UNCHANGED <<configVars, counterVars, entryVars, spc, pass, tau, tau_max, dispatch_fired,
                 haloVars, ghost_fresh, stale_read, tau_used, passes_run, result, ret>>

\* end of the region of step 4, lines 713-715
Pass4End ==
  /\ StepFrame
  /\ spc = "p4"
  /\ EndRegion("p4sync")
  /\ UNCHANGED <<configVars, counterVars, entryVars, pass, tau, tau_max, restart_needed,
                 ghost_fresh, n_finished, stale_read, tau_used, passes_run, failed_at,
                 result, ret>>

\* lines 717-735: the finish of the l_ij rows, then the first sweep
Sync4 ==
  /\ StepFrame
  /\ spc = "p4sync"
  /\ Proceed(<<"lij_matrix_">>, FALSE, "sweep", 0)
  /\ UNCHANGED <<configVars, counterVars, entryVars, tau, tau_max, restart_needed,
                 tau_used, failed_at, result, ret>>

\* end of the region of a sweep, lines 857-859
SweepEnd ==
  /\ StepFrame
  /\ spc = "sweep"
  /\ EndRegion("sweepsync")
  /\ UNCHANGED <<configVars, counterVars, entryVars, pass, tau, tau_max, restart_needed,
                 ghost_fresh, n_finished, stale_read, tau_used, passes_run, failed_at,
                 result, ret>>

\* lines 871-876: finish and swap unless this was the last round, then the
\* next sweep, or the end of the limiter loop
SweepSync ==
  /\ StepFrame
  /\ spc = "sweepsync"
  /\ IF ~IsLastRound(pass)
       THEN Proceed(<<"lij_matrix_next_">>, TRUE,
                    IF pass + 1 < limiter_iter_ THEN "sweep" ELSE "final", pass + 1)
       ELSE Proceed(<<>>, FALSE, "final", pass + 1)
  /\ UNCHANGED <<configVars, counterVars, entryVars, tau, tau_max, restart_needed,
                 tau_used, failed_at, result, ret>>

\* what the other ranks can bring to the logical_or of line 883: they run with
\* the same parameters, and with limiter_iter_ == 0 no rank executes a line
\* that sets its flag (lines 591 and 735)
OtherRanksFlag == IF limiter_iter_ = 0 THEN {FALSE} ELSE BOOLEAN

\* a step() that forgets the counter of the warn branch
FinalizeNoCount ==
  /\ StepFrame
  /\ spc = "final"
  /\ \E others \in OtherRanksFlag :
       LET reduced == (restart_needed \/ others) IN
       /\ restart_needed' = reduced
       /\ result' = IF reduced /\ id_violation_strategy_ = "raise_exception"
                      THEN "restart" ELSE "returned"
       /\ ret' = IF reduced /\ id_violation_strategy_ = "raise_exception" THEN -1 ELSE tau_max
       /\ n_restarts_' = IF reduced /\ id_violation_strategy_ = "raise_exception"
                           THEN n_restarts_ + 1 ELSE n_restarts_
       /\ thrown_restarts' = IF reduced /\ id_violation_strategy_ = "raise_exception"
                               THEN thrown_restarts + 1 ELSE thrown_restarts
       /\ flagged_returns' = IF reduced /\ id_violation_strategy_ = "warn"
                               THEN flagged_returns + 1 ELSE flagged_returns
  /\ UNCHANGED n_warnings_
  /\ spc' = "idle"
  /\ UNCHANGED <<configVars, entryVars, pass, tau, tau_max, dispatch_fired, haloVars,
                 ghost_fresh, stale_read, tau_used, passes_run, failed_at>>

\* lines 882-901: the logical_or over the ranks (others: what the other ranks
\* hold), the switch over the strategy, and the return of tau_max
Finalize ==
  /\ StepFrame
  /\ spc = "final"
  /\ \E others \in OtherRanksFlag :
       LET reduced == (restart_needed \/ others) IN
       /\ restart_needed' = reduced
       /\ IF reduced
            THEN IF id_violation_strategy_ = "warn"
                   THEN /\ n_warnings_' = n_warnings_ + 1
                        /\ flagged_returns' = flagged_returns + 1
                        /\ result' = "returned"
                        /\ ret' = tau_max
                        /\ UNCHANGED <<n_restarts_, thrown_restarts>>
                   ELSE /\ n_restarts_' = n_restarts_ + 1
                        /\ thrown_restarts' = thrown_restarts + 1
                        /\ result' = "restart"
                        /\ ret' = -1
                        /\ UNCHANGED <<n_warnings_, flagged_returns>>
            ELSE /\ result' = "returned"
                 /\ ret' = tau_max
                 /\ UNCHANGED counterVars
  /\ spc' = "idle"
  /\ UNCHANGED <<configVars, entryVars, pass, tau, tau_max, dispatch_fired, haloVars,
                 ghost_fresh, stale_read, tau_used, passes_run, failed_at>>

NextStep ==
  \/ Prepare
  \/ ApplyBoundaryConditions
  \/ StepEntry
  \/ PayloadEarly
  \/ Pass0End
  \/ Sync0
  \/ Pass1End
  \/ Pass2
  \/ Sync2
  \/ AssertTau
  \/ Pass3End
  \/ Sync3
  \/ LimitFails
  \/ Pass4End
  \/ Sync4
  \/ SweepEnd
  \/ SweepSync
  \/ Finalize

(* ------------------------------------------------------------------ *)
(* Part 3: step() on several MPI ranks                                 *)
(* ------------------------------------------------------------------ *)

\* largest number of MPI ranks
MaxRanks == 2

Ranks == 1..n_ranks

NothingSent == 0 - 1

InitRanks ==
  /\ n_ranks \in 1..MaxRanks
  /\ rank_strategy \in {"warn", "raise_exception"}
  /\ rank_limiter_iter \in 0..MaxLimiterIter
  /\ rpc = [r \in 1..n_ranks |-> "passes012"]
  /\ rank_tau_max = [r \in 1..n_ranks |-> Inf]
  /\ rank_restart = [r \in 1..n_ranks |-> FALSE]
  /\ min_sent = [r \in 1..n_ranks |-> NothingSent]
  /\ or_sent = [r \in 1..n_ranks |-> "none"]
  /\ rank_pass3 = [r \in 1..n_ranks |-> FALSE]
  /\ rank_n_warnings = [r \in 1..n_ranks |-> 0]
  /\ rank_n_restarts = [r \in 1..n_ranks |-> 0]

ParkRanks ==
  /\ n_ranks = 0 /\ rank_strategy = "warn" /\ rank_limiter_iter = 0 /\ rpc = <<>>
  /\ rank_tau_max = <<>> /\ rank_restart = <<>> /\ min_sent = <<>> /\ or_sent = <<>>
  /\ rank_pass3 = <<>> /\ rank_n_warnings = <<>> /\ rank_n_restarts = <<>>

rankConfig == <<n_ranks, rank_strategy, rank_limiter_iter>>

\* Steps 0 to 2 on rank r, lines 183-422: its threads leave the minimum of
\* infinity and the candidates of the rank in tau_max. The rank then enters
\* Utilities::MPI::min with that value (line 431).
RankPasses012(r) ==
  /\ RankFrame
  /\ rpc[r] = "passes012"
  /\ \E v \in TauVals :
       /\ rank_tau_max' = [rank_tau_max EXCEPT ![r] = v]
       /\ min_sent' = [min_sent EXCEPT ![r] = v]
  /\ rpc' = [rpc EXCEPT ![r] = "min"]
  /\ UNCHANGED <<rankConfig, rank_restart, or_sent, rank_pass3, rank_n_warnings, rank_n_restarts>>

RECURSIVE MinOver(_, _)
MinOver(f, n) == IF n = 1 THEN f[1] ELSE Min2(f[n], MinOver(f, n - 1))

\* a reduction that returns the value of the calling rank
LocalMin(r) == min_sent[r]

\* the value Utilities::MPI::min returns on rank r: the minimum over all ranks
ReducedMin(r) == MinOver(min_sent, n_ranks)

\* Utilities::MPI::min returns on rank r once every rank has entered it; the
\* rank stores the result (line 431) and evaluates the AssertThrow of line 433.
RankMinReturns(r) ==
  /\ RankFrame
  /\ rpc[r] = "min"
  /\ \A q \in Ranks : min_sent[q] # NothingSent
  /\ rank_tau_max' = [rank_tau_max EXCEPT ![r] = ReducedMin(r)]
  /\ IF TauMaxAccepted(ReducedMin(r))
       THEN /\ rpc' = [rpc EXCEPT ![r] = "passes3plus"]
            /\ rank_pass3' = [rank_pass3 EXCEPT ![r] = TRUE]
       ELSE /\ rpc' = [rpc EXCEPT ![r] = "fatal"]
            /\ UNCHANGED rank_pass3
  /\ UNCHANGED <<rankConfig, rank_restart, min_sent, or_sent, rank_n_warnings, rank_n_restarts>>

\* a limit() call of step 4 or of a sweep fails on a thread of rank r
RankLimitFails(r) ==
  /\ RankFrame
  /\ rpc[r] = "passes3plus"
  /\ rank_limiter_iter # 0
  /\ rank_restart' = [rank_restart EXCEPT ![r] = TRUE]
  /\ UNCHANGED <<rankConfig, rpc, rank_tau_max, min_sent, or_sent, rank_pass3,
                 rank_n_warnings, rank_n_restarts>>

\* rank r has run its passes and enters Utilities::MPI::logical_or (line 883)
RankEntersOr(r) ==
  /\ RankFrame
  /\ rpc[r] = "passes3plus"
  /\ or_sent' = [or_sent EXCEPT ![r] = IF rank_restart[r] THEN "true" ELSE "false"]
  /\ rpc' = [rpc EXCEPT ![r] = "or"]
  /\ UNCHANGED <<rankConfig, rank_tau_max, rank_restart, min_sent, rank_pass3,
                 rank_n_warnings, rank_n_restarts>>

\* a reduction that returns the flag of the calling rank
LocalOr(r) == or_sent[r] = "true"

\* the value Utilities::MPI::logical_or returns on rank r
ReducedOr(r) == \E q \in Ranks : or_sent[q] = "true"

\* logical_or returns on rank r once every rank has entered it; lines 882-901
RankFinalize(r) ==
  /\ RankFrame
  /\ rpc[r] = "or"
  /\ \A q \in Ranks : or_sent[q] # "none"
  /\ rank_restart' = [rank_restart EXCEPT ![r] = ReducedOr(r)]
  /\ IF ReducedOr(r)
       THEN IF rank_strategy = "warn"
              THEN /\ rank_n_warnings' = [rank_n_warnings EXCEPT ![r] = @ + 1]
                   /\ rpc' = [rpc EXCEPT ![r] = "warned"]
                   /\ UNCHANGED rank_n_restarts
              ELSE /\ rank_n_restarts' = [rank_n_restarts EXCEPT ![r] = @ + 1]
                   /\ rpc' = [rpc EXCEPT ![r] = "restart"]
                   /\ UNCHANGED rank_n_warnings
       ELSE /\ rpc' = [rpc EXCEPT ![r] = "returned"]
            /\ UNCHANGED <<rank_n_warnings, rank_n_restarts>>
  /\ UNCHANGED <<rankConfig, rank_tau_max, min_sent, or_sent, rank_pass3>>

NextRanks ==
  \/ \E r \in Ranks : RankPasses012(r)
  \/ \E r \in Ranks : RankMinReturns(r)
  \/ \E r \in Ranks : RankLimitFails(r)
  \/ \E r \in Ranks : RankEntersOr(r)
  \/ \E r \in Ranks : RankFinalize(r)

(* ------------------------------------------------------------------ *)
(* Part 4: steps 1 and 2 of step(): d_ij, its diagonal, and tau_max    *)
(* ------------------------------------------------------------------ *)

\* number of rows of the sparsity pattern (owned and ghost)
MaxDofs == 3
\* largest one-sided estimate of an edge
MaxD == 2
\* spurious failures of compare_exchange_weak that are followed
MaxSpurious == 1

\* cfl_ * mass of a row, in the units of the model
cfl_mass == 120

AllRows == 0..(n_relevant - 1)
OwnedRows == 0..(n_owned - 1)

\* The stencil: the unconstrained rows form a ring in index order. Column 0 of
\* a row is the diagonal, then come the predecessor and the successor; a
\* constrained row holds its diagonal only.
RankIn(A, i) == Cardinality({a \in A : a < i})
Nth(A, k) == CHOOSE a \in A : RankIn(A, a) = k
Ring(A) ==
  LET n == Cardinality(A) IN
  [i \in AllRows |->
    IF i \notin A THEN <<i>>
    ELSE IF n = 2 THEN <<i, Nth(A, (RankIn(A, i) + 1) % n)>>
    ELSE <<i, Nth(A, (RankIn(A, i) + n - 1) % n), Nth(A, (RankIn(A, i) + 1) % n)>>]

Col(i, c) == columns[i][c + 1]

row_length(i) == Len(columns[i])

\* the off-diagonal column positions of a row
OffDiag(i) == 1..(row_length(i) - 1)

\* the position of the edge (i, col_idx) in the row of its column
TransposedCol(i, c) ==
  IF c = 0 THEN 0 ELSE CHOOSE c2 \in OffDiag(Col(i, c)) : Col(Col(i, c), c2) = i

get_entry(i, c) == dij_matrix_[i][c]
get_transposed_entry(i, c) == dij_matrix_[Col(i, c)][TransposedCol(i, c)]

\* |c_ij| * riemann_solver.compute(U_i, U_j, n_ij): not symmetric in general
Estimate(i, j) == 1 + ((((i + 1) \div 2) + est_a * j) % MaxD)

\* the rows one iteration of the loop of step 1 covers
Lanes(i) == IF i < n_internal THEN i..(i + simd_length - 1) ELSE {i}

\* a test that skips a group as soon as one of its lanes is below the diagonal
any_below_diagonal(i, c) == \E r \in Lanes(i) : Col(r, c) < r

\* all_below_diagonal<T>(i, js)
all_below_diagonal(i, c) == \A r \in Lanes(i) : Col(r, c) < r

\* the stored values of a matrix on the sparsity pattern, all equal to v
Filled(v) == [i \in AllRows |-> [c \in 0..(row_length(i) - 1) |-> v]]

\* the edges (i, col_idx) of the owned rows
OwnedEdges == {p \in OwnedRows \X (1..2) : p[2] \in OffDiag(p[1])}

\* the pairs of a boundary map: the edges between two of its rows
PairsOf(b) == {p \in OwnedEdges : p[1] \in b /\ Col(p[1], p[2]) \in b}

InitDij ==
  /\ num_threads \in 1..MaxThreads
  /\ n_relevant = MaxDofs
  /\ n_owned \in {MaxDofs - 1, MaxDofs}
  /\ n_internal \in {n \in 0..n_owned : n % simd_length = 0}
  /\ constrained \in {c \in SUBSET ScalarIters :
                        Cardinality(c) <= MaxConstrained /\ n_relevant - Cardinality(c) >= 2}
  /\ columns = Ring((0..(n_relevant - 1)) \ constrained)
  /\ est_a \in 0..(MaxD - 1)
  /\ boundary \in {{}, {0, 1}}
  /\ cfl_with_boundary_dofs_ \in (IF boundary = {} THEN {FALSE} ELSE BOOLEAN)
  /\ coupling_boundary_pairs = PairsOf(boundary)
  /\ \E old \in {0, MaxD} : dij_matrix_ = Filled(old)
  /\ qpc = "pass1"
  /\ iter_done = {}
  /\ pairs_done = {}
  /\ row_taken = {}
  /\ row_finished = {}
  /\ wphase = [t \in 1..num_threads |-> "idle"]
  /\ wrow = [t \in 1..num_threads |-> 0]
  /\ wcol = [t \in 1..num_threads |-> 0]
  /\ d_sum = [t \in 1..num_threads |-> 0]
  /\ wtau = [t \in 1..num_threads |-> 0]
  /\ current_tau_max = [t \in 1..num_threads |-> 0]
  /\ dij_tau_max = Inf
  /\ n_spurious = 0
  /\ tau_max_raised = FALSE
  /\ offered = [i \in 0..(n_owned - 1) |-> 0]

ParkDij ==
  /\ est_a = 0 /\ boundary = {}
  /\ cfl_with_boundary_dofs_ = FALSE /\ coupling_boundary_pairs = {} /\ dij_matrix_ = <<>>
  /\ qpc = "parked" /\ iter_done = {} /\ pairs_done = {} /\ row_taken = {}
  /\ row_finished = {} /\ wphase = <<>> /\ wrow = <<>> /\ wcol = <<>> /\ d_sum = <<>>
  /\ wtau = <<>> /\ current_tau_max = <<>> /\ dij_tau_max = 0 /\ n_spurious = 0
  /\ tau_max_raised = FALSE
  /\ offered = <<>>

dijConfig == <<est_a, boundary, cfl_with_boundary_dofs_,
               coupling_boundary_pairs>>
workerVars == <<wphase, wrow, wcol, d_sum, wtau, current_tau_max>>

\* One iteration of the loop of step 1 (lines 288-329), scalar or SIMD: the
\* entries of the row (of the rows of the group) that are not skipped as below
\* the diagonal receive the one-sided estimate.
Pass1Iter(i) ==
  /\ DijFrame
  /\ qpc = "pass1"
  /\ i \in (ScalarIters \cup SimdIters) \ iter_done
  /\ iter_done' = iter_done \cup {i}
  /\ IF row_length(i) = 1
       THEN UNCHANGED dij_matrix_
       ELSE dij_matrix_' =
              [r \in AllRows |->
                [c \in 0..(row_length(r) - 1) |->
                  IF r \in Lanes(i) /\ c >= 1 /\ ~all_below_diagonal(i, c)
                    THEN Estimate(r, Col(r, c))
                    ELSE dij_matrix_[r][c]]]
  /\ UNCHANGED <<dijConfig, qpc, pairs_done, row_taken, row_finished, workerVars,
                 dij_tau_max, n_spurious, tau_max_raised, offered>>

\* RYUJIN_PARALLEL_REGION_END of step 1; tau_max is created (line 345)
Pass1Done ==
  /\ DijFrame
  /\ qpc = "pass1"
  /\ iter_done = ScalarIters \cup SimdIters
  /\ qpc' = "pairs"
  /\ dij_tau_max' = Inf
  /\ UNCHANGED <<dijConfig, dij_matrix_, iter_done, pairs_done, row_taken, row_finished,
                 workerVars, n_spurious, tau_max_raised, offered>>

\* a pair whose entry keeps the estimate of its own side
BoundaryPairKeep(p) ==
  /\ DijFrame
  /\ qpc = "pairs"
  /\ p \in coupling_boundary_pairs \ pairs_done
  /\ pairs_done' = pairs_done \cup {p}
  /\ UNCHANGED <<dijConfig, dij_matrix_, qpc, iter_done, row_taken, row_finished, workerVars,
                 dij_tau_max, n_spurious, tau_max_raised, offered>>

\* one entry of coupling_boundary_pairs, lines 361-376
BoundaryPair(p) ==
  /\ DijFrame
  /\ qpc = "pairs"
  /\ p \in coupling_boundary_pairs \ pairs_done
  /\ pairs_done' = pairs_done \cup {p}
  /\ LET i == p[1]
         c == p[2]
         d == Max2(get_entry(i, c), Estimate(Col(i, c), i))
     IN dij_matrix_' = [dij_matrix_ EXCEPT ![i][c] = d]
  /\ UNCHANGED <<dijConfig, qpc, iter_done, row_taken, row_finished, workerVars,
                 dij_tau_max, n_spurious, tau_max_raised, offered>>

\* the barrier at the end of the loop over coupling_boundary_pairs
PairsBarrier ==
  /\ DijFrame
  /\ qpc = "pairs"
  /\ pairs_done = coupling_boundary_pairs
  /\ qpc' = "symm"
  /\ UNCHANGED <<dijConfig, dij_matrix_, iter_done, pairs_done, row_taken, row_finished,
                 workerVars, dij_tau_max, n_spurious, tau_max_raised, offered>>

\* The threads of a team are interchangeable and a thread between two rows
\* holds no state: of the threads that wait for a row the lowest takes it.
FirstIdle(t) == wphase[t] = "idle" /\ \A u \in 1..(t - 1) : wphase[u] # "idle"

\* the rows the "omp for" of the symmetrize loop can hand out next
FreeRows == OwnedRows \ row_taken

\* a thread is handed a constrained row and skips it (lines 383-386)
RowSkip(t) ==
  /\ DijFrame
  /\ qpc = "symm"
  /\ FirstIdle(t)
  /\ \E i \in FreeRows :
       /\ row_length(i) = 1
       /\ row_taken' = row_taken \cup {i}
       /\ row_finished' = row_finished \cup {i}
  /\ UNCHANGED <<dijConfig, dij_matrix_, qpc, iter_done, pairs_done, workerVars, dij_tau_max,
                 n_spurious, tau_max_raised, offered>>

\* the row and the column a thread works on next: column 1 of a row it is
\* handed, or the next column of the row it holds
ColumnTurn(t, i, c) ==
  \/ FirstIdle(t) /\ i \in FreeRows /\ row_length(i) # 1 /\ c = 1
  \/ wphase[t] = "cols" /\ i = wrow[t] /\ c = wcol[t] /\ c < row_length(i)

\* a row that is never filled from its transpose
RowColumnNoCopy(t) ==
  /\ DijFrame
  /\ qpc = "symm"
  /\ \E i \in OwnedRows : \E c \in 1..2 :
       /\ ColumnTurn(t, i, c)
       /\ d_sum' = [d_sum EXCEPT ![t] = (IF c = 1 THEN 0 ELSE @) - get_entry(i, c)]
       /\ UNCHANGED dij_matrix_
       /\ row_taken' = row_taken \cup {i}
       /\ wphase' = [wphase EXCEPT ![t] = "cols"]
       /\ wrow' = [wrow EXCEPT ![t] = i]
       /\ wcol' = [wcol EXCEPT ![t] = c + 1]
  /\ UNCHANGED <<dijConfig, qpc, iter_done, pairs_done, row_finished, wtau, current_tau_max,
                 dij_tau_max, n_spurious, tau_max_raised, offered>>

\* a row that subtracts the entry from d_sum before it is filled from the transpose
RowColumnSumFirst(t) ==
  /\ DijFrame
  /\ qpc = "symm"
  /\ \E i \in OwnedRows : \E c \in 1..2 :
       /\ ColumnTurn(t, i, c)
       /\ d_sum' = [d_sum EXCEPT ![t] = (IF c = 1 THEN 0 ELSE @) - get_entry(i, c)]
       /\ dij_matrix_' = IF Col(i, c) < i
                           THEN [dij_matrix_ EXCEPT ![i][c] = get_transposed_entry(i, c)]
                           ELSE dij_matrix_
       /\ row_taken' = row_taken \cup {i}
       /\ wphase' = [wphase EXCEPT ![t] = "cols"]
       /\ wrow' = [wrow EXCEPT ![t] = i]
       /\ wcol' = [wcol EXCEPT ![t] = c + 1]
  /\ UNCHANGED <<dijConfig, qpc, iter_done, pairs_done, row_finished, wtau, current_tau_max,
                 dij_tau_max, n_spurious, tau_max_raised, offered>>

\* One column of a row, lines 388-404: an entry below the diagonal is replaced
\* by its transpose, then the entry is subtracted from d_sum, which starts at
\* zero with column 1.
RowColumn(t) ==
  /\ DijFrame
  /\ qpc = "symm"
  /\ \E i \in OwnedRows : \E c \in 1..2 :
       /\ ColumnTurn(t, i, c)
       /\ LET e == IF Col(i, c) < i THEN get_transposed_entry(i, c) ELSE get_entry(i, c)
          IN /\ dij_matrix_' = [dij_matrix_ EXCEPT ![i][c] = e]
             /\ d_sum' = [d_sum EXCEPT ![t] = (IF c = 1 THEN 0 ELSE @) - e]
       /\ row_taken' = row_taken \cup {i}
       /\ wphase' = [wphase EXCEPT ![t] = "cols"]
       /\ wrow' = [wrow EXCEPT ![t] = i]
       /\ wcol' = [wcol EXCEPT ![t] = c + 1]
  /\ UNCHANGED <<dijConfig, qpc, iter_done, pairs_done, row_finished, wtau, current_tau_max,
                 dij_tau_max, n_spurious, tau_max_raised, offered>>

\* cfl_ * mass / (Number(-2.) * d_sum)
TauOf(s) == IF s = 0 THEN NegInf ELSE cfl_mass \div ((0 - 2) * s)

\* the end of the loop body: the locals of the row go out of scope
LeaveRow(t) ==
  /\ wphase' = [wphase EXCEPT ![t] = "idle"]
  /\ wrow' = [wrow EXCEPT ![t] = 0]
  /\ wcol' = [wcol EXCEPT ![t] = 0]
  /\ d_sum' = [d_sum EXCEPT ![t] = 0]
  /\ wtau' = [wtau EXCEPT ![t] = 0]
  /\ current_tau_max' = [current_tau_max EXCEPT ![t] = 0]

\* a row end that offers the tau of every row
RowDiagonalAllRows(t) ==
  /\ DijFrame
  /\ qpc = "symm"
  /\ wphase[t] = "cols"
  /\ wcol[t] = row_length(wrow[t])
  /\ dij_matrix_' = [dij_matrix_ EXCEPT ![wrow[t]][0] = d_sum[t]]
  /\ wtau' = [wtau EXCEPT ![t] = TauOf(d_sum[t])]
  /\ current_tau_max' = [current_tau_max EXCEPT ![t] = dij_tau_max]
  /\ wphase' = [wphase EXCEPT ![t] = "cas"]
  /\ offered' = [offered EXCEPT ![wrow[t]] = TauOf(d_sum[t])]
  /\ UNCHANGED <<row_finished, wrow, wcol, d_sum>>
  /\ UNCHANGED <<dijConfig, qpc, iter_done, pairs_done, row_taken, dij_tau_max, n_spurious,
                 tau_max_raised>>

\* lines 406-413: the diagonal is written, tau is computed, and a row that
\* takes part in the reduction loads tau_max
RowDiagonal(t) ==
  /\ DijFrame
  /\ qpc = "symm"
  /\ wphase[t] = "cols"
  /\ wcol[t] = row_length(wrow[t])
  /\ LET i == wrow[t] IN
       /\ dij_matrix_' = [dij_matrix_ EXCEPT ![i][0] = d_sum[t]]
       /\ IF i \notin boundary \/ cfl_with_boundary_dofs_
            THEN /\ wtau' = [wtau EXCEPT ![t] = TauOf(d_sum[t])]
                 /\ current_tau_max' = [current_tau_max EXCEPT ![t] = dij_tau_max]
                 /\ wphase' = [wphase EXCEPT ![t] = "cas"]
                 /\ offered' = [offered EXCEPT ![i] = TauOf(d_sum[t])]
                 /\ UNCHANGED <<row_finished, wrow, wcol, d_sum>>
            ELSE /\ LeaveRow(t)
                 /\ row_finished' = row_finished \cup {i}
                 /\ UNCHANGED offered
  /\ UNCHANGED <<dijConfig, qpc, iter_done, pairs_done, row_taken, dij_tau_max, n_spurious,
                 tau_max_raised>>

\* a plain store in place of the compare-exchange
CasStepBlindStore(t) ==
  /\ DijFrame
  /\ qpc = "symm"
  /\ wphase[t] = "cas"
  /\ IF current_tau_max[t] > wtau[t]
       THEN /\ dij_tau_max' = wtau[t]
            /\ tau_max_raised' = (tau_max_raised \/ wtau[t] > dij_tau_max)
       ELSE UNCHANGED <<dij_tau_max, tau_max_raised>>
  /\ LeaveRow(t)
  /\ row_finished' = row_finished \cup {wrow[t]}
  /\ UNCHANGED <<dijConfig, dij_matrix_, qpc, iter_done, pairs_done, row_taken, n_spurious,
                 offered>>

\* One evaluation of the loop condition of lines 414-415:
\*   current_tau_max > tau && !tau_max.compare_exchange_weak(current_tau_max, tau)
\* The exchange stores tau when tau_max still holds current_tau_max; when it
\* fails, for a changed value or spuriously, it loads tau_max into
\* current_tau_max and the condition is evaluated again.
CasStep(t) ==
  /\ DijFrame
  /\ qpc = "symm"
  /\ wphase[t] = "cas"
  /\ IF current_tau_max[t] > wtau[t]
       THEN \/ /\ dij_tau_max = current_tau_max[t]
               /\ dij_tau_max' = wtau[t]
               /\ tau_max_raised' = (tau_max_raised \/ wtau[t] > dij_tau_max)
               /\ LeaveRow(t)
               /\ row_finished' = row_finished \cup {wrow[t]}
               /\ UNCHANGED n_spurious
            \/ /\ dij_tau_max # current_tau_max[t]
               /\ current_tau_max' = [current_tau_max EXCEPT ![t] = dij_tau_max]
               /\ UNCHANGED <<dij_tau_max, wphase, wrow, wcol, d_sum, wtau, row_finished,
                              n_spurious, tau_max_raised>>
            \/ /\ dij_tau_max = current_tau_max[t]
               /\ n_spurious < MaxSpurious
               /\ n_spurious' = n_spurious + 1
               /\ UNCHANGED <<dij_tau_max, workerVars, row_finished, tau_max_raised>>
       ELSE /\ LeaveRow(t)
            /\ row_finished' = row_finished \cup {wrow[t]}
            /\ UNCHANGED <<dij_tau_max, n_spurious, tau_max_raised>>
  /\ UNCHANGED <<dijConfig, dij_matrix_, qpc, iter_done, pairs_done, row_taken, offered>>

\* RYUJIN_PARALLEL_REGION_END of step 2 (line 421)
Pass2Done ==
  /\ DijFrame
  /\ qpc = "symm"
  /\ row_finished = OwnedRows
  /\ qpc' = "done"
  /\ UNCHANGED <<dijConfig, dij_matrix_, iter_done, pairs_done, row_taken, row_finished,
                 workerVars, dij_tau_max, n_spurious, tau_max_raised, offered>>

NextDij ==
  \/ \E i \in AllRows : Pass1Iter(i)
  \/ Pass1Done
  \/ \E p \in coupling_boundary_pairs : BoundaryPair(p)
  \/ PairsBarrier
  \/ \E t \in Threads : RowSkip(t)
  \/ \E t \in Threads : RowColumn(t)
  \/ \E t \in Threads : RowDiagonal(t)
  \/ \E t \in Threads : CasStep(t)
  \/ Pass2Done

(* ------------------------------------------------------------------ *)
(* Part 5: step 4 and the limiter sweeps: l_ij on two ranks            *)
(* ------------------------------------------------------------------ *)

\* limit() returns a multiple of 1 / LDen
LDen == 2
\* the coefficient 1 in the units of the stored entries
One == LDen * LDen

\* rank 1 owns the rows [0, n_owned), rank 2 the rows [n_owned, n_relevant);
\* every row is a ghost row of the rank that does not own it
SweepRanks == 1..2
Owner(i) == IF i < n_owned THEN 1 ELSE 2

\* Limiter::limit(..., t_min = 0, t_max = 1): a coefficient in [0, 1]
limit(i, c, round) == ((lim_a * i + lim_b * Col(i, c) + round) % (LDen + 1)) * LDen

NoRowRun == [i \in AllRows |-> [c \in 0..(row_length(i) - 1) |-> 0 - 1]]

InitSweep ==
  /\ num_threads = 1
  /\ n_internal = 0
  /\ n_relevant = MaxDofs
  /\ n_owned \in 1..MaxDofs
  /\ constrained \in {c \in SUBSET ScalarIters :
                        Cardinality(c) <= MaxConstrained /\ n_relevant - Cardinality(c) >= 2}
  /\ columns = Ring((0..(n_relevant - 1)) \ constrained)
  /\ sweep_limiter_iter \in 1..MaxLimiterIter
  /\ lim_a \in 0..LDen
  /\ lim_b \in 0..LDen
  /\ \E old \in {0, One} :
       /\ lij_matrix_ = [r \in SweepRanks |-> Filled(old)]
       /\ lij_matrix_next_ = [r \in SweepRanks |-> Filled(old)]
  /\ sweep_pc = "pass4"
  /\ sweep_round = 0
  /\ sweep_rows_done = {}
  /\ applied = NoRowRun

ParkSweep ==
  /\ sweep_limiter_iter = 0 /\ lim_a = 0 /\ lim_b = 0 /\ lij_matrix_ = <<>>
  /\ lij_matrix_next_ = <<>> /\ sweep_pc = "parked" /\ sweep_round = 0
  /\ sweep_rows_done = {} /\ applied = <<>>

sweepConfig == <<sweep_limiter_iter, lim_a, lim_b>>

\* The row i of step 4 on the rank that owns it, lines 610-705: every entry of
\* the row, the diagonal included, receives the coefficient limit() returns.
Pass4Row(i) ==
  /\ SweepFrame
  /\ sweep_pc = "pass4"
  /\ i \in AllRows \ sweep_rows_done
  /\ sweep_rows_done' = sweep_rows_done \cup {i}
  /\ IF row_length(i) = 1
       THEN UNCHANGED lij_matrix_
       ELSE lij_matrix_' =
              [lij_matrix_ EXCEPT ![Owner(i)][i] =
                [c \in 0..(row_length(i) - 1) |-> limit(i, c, 0)]]
  /\ UNCHANGED <<sweepConfig, lij_matrix_next_, sweep_pc, sweep_round, applied>>

\* update_ghost_rows_start and update_ghost_rows_finish of a matrix, on both
\* ranks: every rank receives the rows it does not own from their owner
GhostRowsUpdated(M) ==
  [r \in SweepRanks |-> [i \in AllRows |-> M[Owner(i)][i]]]

\* lines 717-725: the rows of step 4 have run on both ranks, the ghost rows of
\* lij_matrix_ arrive, and the limiter loop begins
Sync4Sweep ==
  /\ SweepFrame
  /\ sweep_pc = "pass4"
  /\ sweep_rows_done = AllRows
  /\ lij_matrix_' = GhostRowsUpdated(lij_matrix_)
  /\ sweep_pc' = "sweep"
  /\ sweep_rows_done' = {}
  /\ UNCHANGED <<sweepConfig, lij_matrix_next_, sweep_round, applied>>

last_round == sweep_round + 1 = sweep_limiter_iter

\* lij_matrix_.get_entry(i, col_idx) on the rank that owns row i
l_entry(i, c) == lij_matrix_[Owner(i)][i][c]
\* lij_matrix_.get_transposed_entry(i, col_idx) on the rank that owns row i
l_transposed_entry(i, c) == lij_matrix_[Owner(i)][Col(i, c)][TransposedCol(i, c)]

\* a sweep that applies the stored entry of the row
SymmetrizedStored(i, c) == l_entry(i, c)

\* std::min(get_entry(i, col_idx), get_transposed_entry(i, col_idx)), lines 779-781
Symmetrized(i, c) == Min2(l_entry(i, c), l_transposed_entry(i, c))

\* the entry a row writes to lij_matrix_next_, lines 831-846: with two limiter
\* iterations (1 - old_l_ij) * new_l_ij, else new_l_ij
NextEntry(i, c) ==
  IF sweep_limiter_iter = 2
    THEN ((One - Symmetrized(i, c)) * limit(i, c, sweep_round + 1)) \div One
    ELSE limit(i, c, sweep_round + 1)

\* the row i of a sweep on the rank that owns it, lines 763-849
SweepRow(i) ==
  /\ SweepFrame
  /\ sweep_pc = "sweep"
  /\ i \in AllRows \ sweep_rows_done
  /\ sweep_rows_done' = sweep_rows_done \cup {i}
  /\ IF row_length(i) = 1
       THEN UNCHANGED <<applied, lij_matrix_next_>>
       ELSE /\ applied' = [applied EXCEPT ![i] =
                            [c \in 0..(row_length(i) - 1) |-> Symmetrized(i, c)]]
            /\ IF last_round
                 THEN UNCHANGED lij_matrix_next_
                 ELSE lij_matrix_next_' =
                        [lij_matrix_next_ EXCEPT ![Owner(i)][i] =
                          [c \in 0..(row_length(i) - 1) |-> NextEntry(i, c)]]
  /\ UNCHANGED <<sweepConfig, lij_matrix_, sweep_pc, sweep_round>>

\* lines 871-874 and the head of the limiter loop: unless this was the last
\* round the ghost rows of lij_matrix_next_ arrive and the matrices are swapped
SweepNext ==
  /\ SweepFrame
  /\ sweep_pc = "sweep"
  /\ sweep_rows_done = AllRows
  /\ IF last_round
       THEN /\ sweep_pc' = "done"
            /\ UNCHANGED <<lij_matrix_, lij_matrix_next_, sweep_round, sweep_rows_done, applied>>
       ELSE /\ lij_matrix_' = GhostRowsUpdated(lij_matrix_next_)
            /\ lij_matrix_next_' = lij_matrix_
            /\ sweep_round' = sweep_round + 1
            /\ sweep_rows_done' = {}
            /\ applied' = NoRowRun
            /\ UNCHANGED sweep_pc
  /\ UNCHANGED sweepConfig

NextSweep ==
  \/ \E i \in AllRows : Pass4Row(i)
  \/ Sync4Sweep
  \/ \E i \in AllRows : SweepRow(i)
  \/ SweepNext

(* ------------------------------------------------------------------ *)
(* Part 6: prepare() and the storage of the module                     *)
(* ------------------------------------------------------------------ *)

\* largest size of the scalar partitioner
MaxOffline == 2
\* most calls of member functions in one run
MaxCalls == 4
\* largest value step() stores
MaxVal == 2

VectorObjects == {"indicator_precomputed_values_", "alpha_", "limiter_precomputed_values_",
                  "bounds_", "r_"}
MatrixObjects == {"dij_matrix_", "lij_matrix_", "lij_matrix_next_", "pij_matrix_"}

\* the number of components of an entry: 1 for the scalar objects, and one
\* common number above 1 for the multi-component ones
n_comp(o) == IF o \in {"alpha_", "dij_matrix_", "lij_matrix_", "lij_matrix_next_"} THEN 1 ELSE 2

\* the number of stored entries of the sparsity pattern: a diagonal and one
\* neighbour per row
n_nonzero(n) == 2 * n

\* create_vector_partitioner<n_comp> and Vector::reinit(partitioner): a vector
\* of n_comp entries per index of the scalar partitioner, all zero
reinit_with_scalar_partitioner(o, n) == [k \in 1..(n_comp(o) * n) |-> 0]

\* SparseMatrixSIMD::reinit(sparsity): n_comp entries per stored position; the
\* entries are either all zero, or resized (old entries kept, new ones zero)
reinit(o, old, n) ==
  [k \in 1..(n_comp(o) * n_nonzero(n)) |->
     IF matrix_keeps /\ k <= Len(old) THEN old[k] ELSE 0]

InitPrepare ==
  /\ offline_n \in 1..MaxOffline
  /\ matrix_keeps \in BOOLEAN
  /\ storage = [o \in VectorObjects \cup MatrixObjects |-> <<>>]
  /\ mod_cfl = 1
  /\ mod_strategy = "warn"
  /\ mod_counters = <<0, 0>>
  /\ calls = <<>>

ParkPrepare ==
  /\ offline_n = 0 /\ matrix_keeps = FALSE /\ storage = <<>> /\ mod_cfl = 0
  /\ mod_strategy = "warn" /\ mod_counters = <<0, 0>> /\ calls = <<>>


Called(name) ==
  /\ Len(calls) < MaxCalls
  /\ calls' = Append(calls, name)

\* a prepare() whose matrices grow by the new size with every call
prepareAppending ==
  /\ PrepFrame
  /\ Called("prepare")
  /\ storage' = [o \in VectorObjects \cup MatrixObjects |->
                   IF o \in VectorObjects
                     THEN reinit_with_scalar_partitioner(o, offline_n)
                     ELSE storage[o] \o reinit(o, <<>>, offline_n)]
  /\ UNCHANGED <<offline_n, matrix_keeps, mod_cfl, mod_strategy, mod_counters>>

\* prepare(), lines 69-98
prepare ==
  /\ PrepFrame
  /\ Called("prepare")
  /\ storage' = [o \in VectorObjects \cup MatrixObjects |->
                   IF o \in VectorObjects
                     THEN reinit_with_scalar_partitioner(o, offline_n)
                     ELSE reinit(o, storage[o], offline_n)]
  /\ UNCHANGED <<offline_n, matrix_keeps, mod_cfl, mod_strategy, mod_counters>>

Prepared ==
  \A o \in VectorObjects \cup MatrixObjects :
    Len(storage[o]) = n_comp(o) * (IF o \in VectorObjects THEN offline_n ELSE n_nonzero(offline_n))

\* step() on prepared storage: its passes overwrite the entries of every object
\* (here: all with one value), and its end may count a warning or a restart
\* (lines 885-898)
StepWrites ==
  /\ PrepFrame
  /\ Prepared
  /\ Called("step")
  /\ \E v \in 1..MaxVal :
       storage' = [o \in VectorObjects \cup MatrixObjects |->
                     [k \in 1..Len(storage[o]) |-> v]]
  /\ \E flagged \in BOOLEAN :
       mod_counters' =
         IF ~flagged THEN mod_counters
         ELSE IF mod_strategy = "warn" THEN <<mod_counters[1], mod_counters[2] + 1>>
         ELSE <<mod_counters[1] + 1, mod_counters[2]>>
  /\ UNCHANGED <<offline_n, matrix_keeps, mod_cfl, mod_strategy>>

\* the caller sets cfl and the violation strategy
Configure ==
  /\ PrepFrame
  /\ Called("configure")
  /\ \E c \in 1..2 : mod_cfl' = c
  /\ \E st \in {"warn", "raise_exception"} : mod_strategy' = st
  /\ UNCHANGED <<offline_n, matrix_keeps, storage, mod_counters>>

\* the offline data is rebuilt for another mesh
NewOfflineData ==
  /\ PrepFrame
  /\ Called("offline")
  /\ \E n \in (1..MaxOffline) \ {offline_n} : offline_n' = n
  /\ UNCHANGED <<matrix_keeps, storage, mod_cfl, mod_strategy, mod_counters>>

NextPrepare ==
  \/ prepare
  \/ StepWrites
  \/ Configure
  \/ NewOfflineData

(* ------------------------------------------------------------------ *)
(* Part 7: apply_boundary_conditions() on two ranks                    *)
(* ------------------------------------------------------------------ *)

\* number of degrees of freedom; the last one is owned by rank 2, the others by rank 1
MaxBcDofs == 3

BcDofs == 0..(MaxBcDofs - 1)
BcRanks == 1..2
BcOwner(g) == IF g = MaxBcDofs - 1 THEN 2 ELSE 1
BcOwned(r) == {g \in BcDofs : BcOwner(g) = r}

\* a state: <<density, normal momentum>>
\* the vector before the call: every owner's entry
BcOld(g) == <<1 + (g % 2), (g % 3) - 1>>
\* the ghost entries before the call: not current
BcStale == <<0, 0>>

\* initial_values_->initial_state(position, t)
initial_state(g, t) == <<3, (g + t) % 2>>

\* hyperbolic_system_->apply_boundary_conditions(id, U_i, normal, get_dirichlet_data)
BoundaryRule(id, u, g, t) ==
  CASE id = "slip" -> <<u[1], 0 - u[2]>>
    [] id = "no_slip" -> <<u[1], 0>>
    [] id = "dirichlet" -> initial_state(g, t)
    [] id = "dynamic" -> IF u[2] < 0 THEN initial_state(g, t) ELSE u
    [] OTHER -> u

\* the entries boundary_map can hold for one degree of freedom
EntriesOfDof ==
  {<<>>, <<"do_nothing">>, <<"slip">>, <<"no_slip">>, <<"dirichlet">>, <<"dynamic">>,
   <<"slip", "dirichlet">>, <<"do_nothing", "no_slip">>}

\* the map as the loop of line 920 meets it: ordered by degree of freedom
RECURSIVE MapEntries(_, _, _)
MapEntries(choice, r, g) ==
  IF g >= MaxBcDofs THEN <<>>
  ELSE (IF BcOwner(g) = r THEN [k \in 1..Len(choice[g]) |-> <<g, choice[g][k]>>] ELSE <<>>)
       \o MapEntries(choice, r, g + 1)

InitBc ==
  /\ bc_t \in 0..1
  /\ \E choice \in [BcDofs -> EntriesOfDof] :
       boundary_map = [r \in BcRanks |-> MapEntries(choice, r, 0)]
  /\ bc_U = [r \in BcRanks |-> [g \in BcDofs |-> IF BcOwner(g) = r THEN BcOld(g) ELSE BcStale]]
  /\ bc_pos = [r \in BcRanks |-> 0]
  /\ bc_pc = [r \in BcRanks |-> "loop"]
  /\ bc_sent = [r \in BcRanks |-> <<>>]

ParkBc ==
  /\ bc_t = 0 /\ boundary_map = <<>> /\ bc_U = <<>> /\ bc_pos = <<>> /\ bc_pc = <<>>
  /\ bc_sent = <<>>


\* one iteration of the loop of lines 920-944 on rank r
BcEntry(r) ==
  /\ BcFrame
  /\ bc_pc[r] = "loop"
  /\ bc_pos[r] < Len(boundary_map[r])
  /\ LET entry == boundary_map[r][bc_pos[r] + 1]
         i == entry[1]
         id == entry[2]
     IN  /\ bc_pos' = [bc_pos EXCEPT ![r] = @ + 1]
         /\ IF id = "do_nothing"
              THEN UNCHANGED bc_U
              ELSE bc_U' = [bc_U EXCEPT ![r][i] = BoundaryRule(id, bc_U[r][i], i, bc_t)]
  /\ UNCHANGED <<bc_t, boundary_map, bc_pc, bc_sent>>

\* an export of the owned entries that does not wait for the loop
BcExportEarly(r) ==
  /\ BcFrame
  /\ bc_pc[r] = "loop"
  /\ bc_sent' = [bc_sent EXCEPT ![r] = [g \in BcOwned(r) |-> bc_U[r][g]]]
  /\ bc_pc' = [bc_pc EXCEPT ![r] = "sent"]
  /\ UNCHANGED <<bc_t, boundary_map, bc_U, bc_pos>>

\* line 946, U.update_ghost_values(), first half: the loop is over, rank r
\* exports its owned entries
BcExport(r) ==
  /\ BcFrame
  /\ bc_pc[r] = "loop"
  /\ bc_pos[r] = Len(boundary_map[r])
  /\ bc_sent' = [bc_sent EXCEPT ![r] = [g \in BcOwned(r) |-> bc_U[r][g]]]
  /\ bc_pc' = [bc_pc EXCEPT ![r] = "sent"]
  /\ UNCHANGED <<bc_t, boundary_map, bc_U, bc_pos>>

\* line 946, second half: the entries of the other rank have arrived and are
\* stored in the ghost range; apply_boundary_conditions() returns
BcImport(r) ==
  /\ BcFrame
  /\ bc_pc[r] = "sent"
  /\ \A q \in BcRanks \ {r} : bc_sent[q] # <<>>
  /\ bc_U' = [bc_U EXCEPT ![r] = [g \in BcDofs |->
                IF BcOwner(g) = r THEN bc_U[r][g] ELSE bc_sent[BcOwner(g)][g]]]
  /\ bc_pc' = [bc_pc EXCEPT ![r] = "done"]
  /\ UNCHANGED <<bc_t, boundary_map, bc_pos, bc_sent>>

NextBc == \E r \in BcRanks : BcEntry(r) \/ BcExport(r) \/ BcImport(r)

(* ------------------------------------------------------------------ *)
(* Part 8: which thread reads and writes which location in the loops   *)
(* of step()                                                           *)
(* ------------------------------------------------------------------ *)

\* a location: <<object, row, column position>> (position 0 for a vector)
Edges(a) == 0..(row_length(a) - 1)
Neighbours(a) == {Col(a, c) : c \in OffDiag(a)}
At(objs, rows) == {<<o, a, 0>> : o \in objs, a \in rows}
OnEdges(objs, rows) == UNION {{<<o, a, c>> : o \in objs, c \in Edges(a)} : a \in rows}

\* the sweep of the last round computes no next l_ij (lines 740, 801-803)
RaceLastRound == race_round + 1 = race_k

\* a sweep that writes the next l_ij into the matrix it reads
WritesInPlace(ph, it) ==
  CASE ph = "p0" -> At({"indicator_precomputed_values_", "limiter_precomputed_values_"}, Lanes(it))
    [] ph = "p1" ->
         At({"alpha_"}, Lanes(it))
         \cup UNION {{<<"dij_matrix_", a, c>> : c \in {c2 \in OffDiag(a) : ~all_below_diagonal(it, c2)}}
                     : a \in Lanes(it)}
    [] ph = "pairs" -> {<<"dij_matrix_", it[1], it[2]>>}
    [] ph = "symm" ->
         {<<"dij_matrix_", it, c>> : c \in {c2 \in OffDiag(it) : Col(it, c2) < it}}
         \cup {<<"dij_matrix_", it, 0>>}
    [] ph = "p3" -> At({"new_U", "r_", "bounds_"}, Lanes(it))
    [] ph = "p4" -> OnEdges({"pij_matrix_", "lij_matrix_"}, Lanes(it))
    [] ph = "sweep" ->
         At({"new_U"}, Lanes(it))
         \cup (IF RaceLastRound THEN {}
               ELSE OnEdges(IF race_k = 2 THEN {"lij_matrix_"}
                              ELSE {"lij_matrix_", "pij_matrix_"}, Lanes(it)))

\* the locations iteration it of the loop ph writes: lines 216-220 (step 0),
\* 323 and 328 (step 1), 375 (coupling pairs), 400 and 407 (symmetrize), 554-559
\* (step 3), 690-699 (step 4), 799 and 838-846 (sweep)
WritesIn(ph, it) ==
  CASE ph = "p0" -> At({"indicator_precomputed_values_", "limiter_precomputed_values_"}, Lanes(it))
    [] ph = "p1" ->
         At({"alpha_"}, Lanes(it))
         \cup UNION {{<<"dij_matrix_", a, c>> : c \in {c2 \in OffDiag(a) : ~all_below_diagonal(it, c2)}}
                     : a \in Lanes(it)}
    [] ph = "pairs" -> {<<"dij_matrix_", it[1], it[2]>>}
    [] ph = "symm" ->
         {<<"dij_matrix_", it, c>> : c \in {c2 \in OffDiag(it) : Col(it, c2) < it}}
         \cup {<<"dij_matrix_", it, 0>>}
    [] ph = "p3" -> At({"new_U", "r_", "bounds_"}, Lanes(it))
    [] ph = "p4" -> OnEdges({"pij_matrix_", "lij_matrix_"}, Lanes(it))
    [] ph = "sweep" ->
         At({"new_U"}, Lanes(it))
         \cup (IF RaceLastRound THEN {}
               ELSE OnEdges(IF race_k = 2 THEN {"lij_matrix_next_"}
                              ELSE {"lij_matrix_next_", "pij_matrix_"}, Lanes(it)))

\* the locations iteration it reads in its own rows
OwnReadsIn(ph, it) ==
  CASE ph = "p0" -> At({"old_U"}, Lanes(it))
    [] ph = "p1" -> At({"old_U", "indicator_precomputed_values_"}, Lanes(it))
    [] ph = "pairs" -> {<<"dij_matrix_", it[1], it[2]>>, <<"old_U", it[1], 0>>}
    [] ph = "symm" -> {<<"dij_matrix_", it, c>> : c \in OffDiag(it)}
    [] ph = "p3" -> At({"old_U", "alpha_", "limiter_precomputed_values_"}, Lanes(it))
                    \cup OnEdges({"dij_matrix_"}, Lanes(it))
    [] ph = "p4" -> At({"old_U", "new_U", "bounds_", "r_", "alpha_"}, Lanes(it))
                    \cup OnEdges({"dij_matrix_"}, Lanes(it))
    [] ph = "sweep" -> At(IF RaceLastRound THEN {"new_U"} ELSE {"new_U", "bounds_"}, Lanes(it))
                       \cup OnEdges({"lij_matrix_", "pij_matrix_"}, Lanes(it))

\* the locations iteration it reads in the rows of its columns: U_j, alpha_j,
\* r_j and the precomputed values through js, entries through get_transposed_entry
CrossReadsIn(ph, it) ==
  LET nb == UNION {Neighbours(a) : a \in (IF ph \in {"pairs", "symm"} THEN {} ELSE Lanes(it))}
      transposed(o, a, cs) == {<<o, Col(a, c), TransposedCol(a, c)>> : c \in cs}
  IN
  CASE ph = "p0" -> {}
    [] ph = "p1" -> At({"old_U", "indicator_precomputed_values_"}, nb)
    [] ph = "pairs" -> {<<"old_U", Col(it[1], it[2]), 0>>}
    [] ph = "symm" -> transposed("dij_matrix_", it, {c \in OffDiag(it) : Col(it, c) < it})
    [] ph = "p3" -> At({"old_U", "alpha_", "limiter_precomputed_values_"}, nb)
    [] ph = "p4" -> At({"old_U", "r_", "alpha_"}, nb)
    [] ph = "sweep" -> UNION {transposed("lij_matrix_", a, OffDiag(a)) : a \in Lanes(it)}

\* the iterations of a loop: the scalar and the SIMD range of the "omp for
\* nowait" pair, the entries of coupling_boundary_pairs, or the owned rows
IterationsOf(ph) ==
  CASE ph = "pairs" -> coupling_boundary_pairs
    [] ph = "symm" -> OwnedRows
    [] ph = "done" -> {}
    [] OTHER -> ScalarIters \cup SimdIters

\* what follows the barrier that ends loop ph
AfterLoop(ph) ==
  CASE ph = "p0" -> "p1"
    [] ph = "p1" -> "pairs"
    [] ph = "pairs" -> "symm"
    [] ph = "symm" -> "p3"
    [] ph = "p3" -> IF race_k = 0 THEN "done" ELSE "p4"
    [] ph = "p4" -> "sweep"
    [] ph = "sweep" -> IF RaceLastRound THEN "done" ELSE "sweep"
    [] OTHER -> "done"

InitRace ==
  /\ race_k \in 0..MaxLimiterIter
  /\ race_phase = "p0"
  /\ race_round = 0
  /\ race_done = {}
  /\ race_w = [t \in 1..num_threads |-> {}]
  /\ race_r = [t \in 1..num_threads |-> {}]
  /\ race_x = {}

ParkRace ==
  /\ race_k = 0 /\ race_phase = "parked" /\ race_round = 0 /\ race_done = {}
  /\ race_w = <<>> /\ race_r = <<>> /\ race_x = {}

ParkUpd ==
  /\ upd_in = <<>> /\ upd_pc = "parked" /\ upd_round = 0
  /\ upd_dij = <<>> /\ upd_tau_max = <<1, 0>> /\ upd_tau = <<0, 1>>
  /\ upd_new_U = <<>> /\ upd_r = <<>> /\ upd_pij = <<>>
  /\ upd_lij = <<>> /\ upd_lij_next = <<>>

ParkMcv ==
  /\ mcv_cfg = <<>> /\ mcv_this = <<>> /\ mcv_prev = <<>> /\ mcv_v = <<>> /\ mcv_w = <<>>
  /\ mcv_last = <<>> /\ mcv_imported = <<>> /\ mcv_ops = 0

ParkBar ==
  /\ bar_in = <<>> /\ bar_col = 0 /\ bar_U_i_new = <<>> /\ bar_r_i = 0 /\ bar_pc = "parked"

ParkLimiter ==
  /\ limiter_in = <<>> /\ limiter_pc = "parked" /\ bounds_ = <<>> /\ relaxation = <<>>
  /\ accumulated = <<>> /\ n_accumulated = 0

ParkPart ==
  /\ scalar_partitioner = <<>> /\ part_n_comp = 0 /\ vector_owned_set = {}
  /\ vector_ghost_set = {} /\ part_pc = "parked" /\ part_it = 0 /\ vector_partitioner = <<>>

ParkLate == ParkMcv /\ ParkBar /\ ParkLimiter /\ ParkPart

ParkExtra == ParkPrepare /\ ParkBc /\ ParkRace /\ ParkUpd /\ ParkLate

\* loops that run the body on every row
RaceIterationEveryRow(t, it) ==
  /\ RaceFrame
  /\ it \in IterationsOf(race_phase) \ race_done
  /\ race_done' = race_done \cup {it}
  /\ race_w' = [race_w EXCEPT ![t] = @ \cup WritesIn(race_phase, it)]
  /\ race_r' = [race_r EXCEPT ![t] = @ \cup OwnReadsIn(race_phase, it)
                                        \cup CrossReadsIn(race_phase, it)]
  /\ race_x' = race_x \cup CrossReadsIn(race_phase, it)
  /\ UNCHANGED <<race_k, race_phase, race_round>>

\* thread t runs iteration it of the current loop; a constrained row is
\* skipped (row_length == 1)
RaceIteration(t, it) ==
  /\ RaceFrame
  /\ it \in IterationsOf(race_phase) \ race_done
  /\ race_done' = race_done \cup {it}
  /\ IF race_phase # "pairs" /\ row_length(it) = 1
       THEN UNCHANGED <<race_w, race_r, race_x>>
       ELSE /\ race_w' = [race_w EXCEPT ![t] = @ \cup WritesIn(race_phase, it)]
            /\ race_r' = [race_r EXCEPT ![t] = @ \cup OwnReadsIn(race_phase, it)
                                                  \cup CrossReadsIn(race_phase, it)]
            /\ race_x' = race_x \cup CrossReadsIn(race_phase, it)
  /\ UNCHANGED <<race_k, race_phase, race_round>>

\* the barrier at the end of a loop (of an "omp for", or of the parallel region)
RaceBarrier ==
  /\ RaceFrame
  /\ race_phase \notin {"done", "parked"}
  /\ race_done = IterationsOf(race_phase)
  /\ race_phase' = AfterLoop(race_phase)
  /\ race_round' = IF race_phase = "sweep" THEN race_round + 1 ELSE race_round
  /\ race_done' = {}
  /\ race_w' = [t \in 1..num_threads |-> {}]
  /\ race_r' = [t \in 1..num_threads |-> {}]
  /\ race_x' = {}
  /\ UNCHANGED race_k

NextRace ==
  \/ \E t \in 1..num_threads : \E it \in IterationsOf(race_phase) : RaceIteration(t, it)
  \/ RaceBarrier

(* ------------------------------------------------------------------ *)
(* Part 9: the values one call of step() computes, in exact arithmetic *)
(* ------------------------------------------------------------------ *)

\* the degrees of freedom of a one-dimensional mesh, in global numbering
MaxUpdDofs == 3
UpdDofs == 0..(MaxUpdDofs - 1)

\* the mesh is a ring (no boundary) or a segment whose two end points are
\* the boundary
UpdPeriodic == upd_in.mesh = "periodic"

\* sparsity_simd.columns(i): the diagonal first
UpdColumns(i) ==
  IF UpdPeriodic
    THEN <<i, (i + MaxUpdDofs - 1) % MaxUpdDofs, (i + 1) % MaxUpdDofs>>
    ELSE IF i = 0 THEN <<0, 1>>
    ELSE IF i = MaxUpdDofs - 1 THEN <<i, i - 1>>
    ELSE <<i, i - 1, i + 1>>
UpdCols(i) == 1..Len(UpdColumns(i))
\* the position of i in the row of its neighbour in column c
UpdTransposed(i, c) ==
  CHOOSE t \in UpdCols(UpdColumns(i)[c]) : UpdColumns(UpdColumns(i)[c])[t] = i

\* boundary_map.count(i) != 0
UpdOnBoundary(i) == ~UpdPeriodic /\ i \in {0, MaxUpdDofs - 1}

\* rank 1 owns the degrees of freedom below upd_in.split, rank 2 the others;
\* on each rank the locally owned rows keep their order and the ghosts follow
UpdRank(i) == IF i < upd_in.split THEN 1 ELSE 2

\* cij_matrix in one dimension: antisymmetric off the diagonal, zero on the
\* diagonal of an interior row; the rows sum to zero on the ring
UpdC(i, j) ==
  IF j = (i + 1) % MaxUpdDofs /\ (UpdPeriodic \/ j = i + 1) THEN 1
  ELSE IF j # i THEN 0 - 1
  ELSE IF UpdPeriodic \/ i \notin {0, MaxUpdDofs - 1} THEN 0
  ELSE IF i = 0 THEN 0 - 1 ELSE 1

\* lumped_mass_matrix: 2 or 4 on the boundary, 4 or 8 in the interior
UpdLumped(i) ==
  (IF UpdOnBoundary(i) THEN 2 ELSE 4) * (1 + ((i + upd_in.mass) % 2))
\* mass_matrix: 1 off the diagonal, the rows sum to the lumped mass
UpdMass(i, c) == IF c = 1 THEN UpdLumped(i) - (Len(UpdColumns(i)) - 1) ELSE 1
\* a common multiple of the lumped masses
UpdMassScale ==
  CHOOSE m \in {UpdLumped(i) : i \in UpdDofs} : \A i \in UpdDofs : m % UpdLumped(i) = 0

\* states (density, momentum, total energy) of the Euler equations in one
\* dimension with gamma = 2; every one has positive density and pressure
UpdStates == << <<1, 0, 1>>, <<2, 0, 3>>, <<1, 2, 4>>, <<2, 0 - 2, 3>> >>
UpdOldU(i) == UpdStates[1 + ((upd_in.sa * i + upd_in.sb) % 4)]
\* the state of the earlier stage: the old state, or another admissible one
UpdStageU(i) == UpdStates[1 + ((upd_in.sa * i + upd_in.sb + upd_in.stage_shift) % 4)]

\* HyperbolicSystem::f: (m, m^2 / rho + p, (E + p) m / rho), p = E - m^2 / (2 rho)
UpdFlux(U) ==
  LET p == U[3] - ((U[2] * U[2]) \div (2 * U[1]))
  IN  <<U[2], ((U[2] * U[2]) \div U[1]) + p, ((U[3] + p) * U[2]) \div U[1]>>

\* HyperbolicSystem::is_admissible of a state scaled by a positive factor
UpdAdmissible(U) == U[1] > 0 /\ 2 * U[1] * U[3] - U[2] * U[2] > 0

\* 2 d times the bar state of the edge (U_i, U_j, c_ij) for the viscosity d
UpdBar(Ui, Uj, c, d) ==
  [k \in 1..3 |-> d * (Ui[k] + Uj[k]) - (UpdFlux(Uj)[k] - UpdFlux(Ui)[k]) * c]

\* RiemannSolver::compute(U_i, U_j, n_ij): an upper bound of the largest wave
\* speed of the edge, here the least whole speed whose bar state is
\* admissible plus a slack that depends on the left state
UpdLambdaMax(Ui, Uj, n) ==
  (CHOOSE l \in 1..40 :
      /\ UpdAdmissible(UpdBar(Ui, Uj, n, l))
      /\ (l = 1 \/ ~UpdAdmissible(UpdBar(Ui, Uj, n, l - 1))))
  + upd_in.es * ((Ui[1] + Ui[3]) % 2)

\* alpha_ of step 1, in units of 1/2: a value in [0, 1] for every row
UpdAlpha(i) == i % 3

\* stage_weights of the one earlier stage, and the weight of the current flux
\* (lines 479-480 and 596-597)
UpdStageWeight == IF upd_in.stages = 0 THEN 0 ELSE 2
UpdWeight == 1 - UpdStageWeight

\* Limiter::limit: a coefficient in [0, 1], in units of 1/4
UpdLimit(i, c, round) ==
  2 * ((upd_in.la * i + UpdColumns(i)[c] + round * (i + 1)) % 3)

\* the denominators of the stored values: alpha in 1/2 makes r a multiple of
\* 1/4; a coefficient is a multiple of 1/4 and every rewrite of p_ij halves
\* its unit
UpdLimScale == 2 ^ (MaxLimiterIter + 1)
UpdHighScale == 4 * UpdMassScale * UpdLimScale

RECURSIVE UpdTotal(_)
UpdTotal(s) == IF s = <<>> THEN 0 ELSE Head(s) + UpdTotal(Tail(s))

\* a / b < c / d for positive denominators
UpdLess(x, y) == x[1] * y[2] < y[1] * x[2]

UpdShortcut == upd_in.k = 2

InitUpd ==
  /\ upd_in \in [mesh : {"periodic", "segment"},
                 cfl_with_boundary_dofs_ : BOOLEAN,
                 split : {MaxUpdDofs - 1, MaxUpdDofs},
                 mass : 0..1, sa : {0, 1, 3}, sb : 0..1, es : 0..1,
                 la : 1..2, stages : 0..1, stage_shift : 0..1,
                 k : 0..MaxLimiterIter,
                 cfl : {<<1, 2>>, <<1, 1>>, <<2, 1>>},
                 tau : {"tau_max", "smaller"}]
  /\ (upd_in.mesh = "periodic" => ~upd_in.cfl_with_boundary_dofs_)
  /\ (upd_in.k > 0 => upd_in.cfl = <<1, 2>>)
  /\ (upd_in.stages = 0 => upd_in.stage_shift = 0)
  /\ upd_pc = "step1"
  /\ upd_round = 0
  /\ upd_dij = <<>> /\ upd_tau_max = <<1, 0>> /\ upd_tau = <<0, 1>>
  /\ upd_new_U = <<>> /\ upd_r = <<>> /\ upd_pij = <<>>
  /\ upd_lij = <<>> /\ upd_lij_next = <<>>

\* the estimate of row i for its column j: norm * lambda_max with n_ij =
\* c_ij / norm (lines 300-323); the norm of UpdC is 1
UpdEstimate(i, j) == UpdLambdaMax(UpdOldU(i), UpdOldU(j), UpdC(i, j))

\* coupling_boundary_pairs of the offline data: the edges from a locally
\* owned row to a ghost
UpdCouplingPair(i, c) == UpdRank(UpdColumns(i)[c]) # UpdRank(i)

\* an off-diagonal entry that keeps the estimate of its own row
UpdDijEntryOwn(i, c) == UpdEstimate(i, UpdColumns(i)[c])

\* the off-diagonal entry (i, c) of dij_matrix_ after steps 1 and 2: the row
\* with the smaller local index computes it (line 323) and the other row
\* copies it (lines 398-401); for a coupling boundary pair the row takes the
\* larger of the two estimates (lines 361-376)
UpdDijEntry(i, c) ==
  LET j == UpdColumns(i)[c] IN
  IF UpdCouplingPair(i, c) THEN Max2(UpdEstimate(i, j), UpdEstimate(j, i))
  ELSE IF UpdRank(j) = UpdRank(i) /\ j < i THEN UpdEstimate(j, i)
  ELSE UpdEstimate(i, j)

\* the row i of dij_matrix_: the diagonal is minus the sum of the others
\* (lines 392-407)
UpdDijRow(i) ==
  LET off == [c \in UpdCols(i) |-> IF c = 1 THEN 0 ELSE UpdDijEntry(i, c)]
  IN  [c \in UpdCols(i) |-> IF c = 1 THEN 0 - UpdTotal(off) ELSE off[c]]

\* a tau that divides by -d_sum
UpdTauOfOnce(i, row) ==
  <<upd_in.cfl[1] * UpdLumped(i), upd_in.cfl[2] * (0 - row[1])>>

\* tau = cfl_ * mass / (-2 * d_sum) of a row, as a fraction (line 410)
UpdTauOf(i, row) ==
  <<upd_in.cfl[1] * UpdLumped(i), upd_in.cfl[2] * 2 * (0 - row[1])>>

\* the rows that offer their tau to tau_max (line 412)
UpdOffering == {i \in UpdDofs : ~UpdOnBoundary(i) \/ upd_in.cfl_with_boundary_dofs_}

\* steps 1 and 2 on both ranks, the reduction over the ranks and the choice
\* of tau (lines 183-436): tau_max starts at infinity, written <<1, 0>>
UpdStep12 ==
  /\ UpdFrame
  /\ upd_pc = "step1"
  /\ LET d == [i \in UpdDofs |-> UpdDijRow(i)]
         offers == {UpdTauOf(i, d[i]) : i \in UpdOffering}
         least == IF offers = {} THEN <<1, 0>>
                  ELSE CHOOSE t \in offers : \A u \in offers : ~UpdLess(u, t)
     IN  /\ upd_dij' = d
         /\ upd_tau_max' = least
         /\ IF least[2] = 0 \/ least[1] <= 0
              THEN /\ upd_pc' = "fatal"
                   /\ UNCHANGED upd_tau
              ELSE /\ upd_pc' = "step3"
                   /\ upd_tau' = IF upd_in.tau = "tau_max" THEN least
                                 ELSE <<least[1], 2 * least[2]>>
  /\ UNCHANGED <<upd_in, upd_round, upd_new_U, upd_r, upd_pij, upd_lij, upd_lij_next>>

\* (f_j - f_i) * c_ij of the stage states, line 540
UpdStageTemp(i, j) ==
  [k \in 1..3 |-> (UpdFlux(UpdStageU(j))[k] - UpdFlux(UpdStageU(i))[k]) * UpdC(i, j)]

\* a low-order update whose column loop starts after the diagonal
UpdLowOrderOffDiagonal(i) ==
  [k \in 1..3 |->
     upd_tau[2] * UpdMassScale * UpdOldU(i)[k]
     + upd_tau[1] * (UpdMassScale \div UpdLumped(i))
       * UpdTotal([c \in UpdCols(i) |->
                     IF c = 1 THEN 0
                     ELSE UpdBar(UpdOldU(i), UpdOldU(UpdColumns(i)[c]),
                                 UpdC(i, UpdColumns(i)[c]), upd_dij[i][c])[k]])]

\* the low-order update of row i, lines 527-554, times the denominator of tau
\* and the mass scale: U_i + tau * m_i_inv * sum_j 2 * d_ij * U_ij_bar, the
\* diagonal column included
UpdLowOrder(i) ==
  [k \in 1..3 |->
     upd_tau[2] * UpdMassScale * UpdOldU(i)[k]
     + upd_tau[1] * (UpdMassScale \div UpdLumped(i))
       * UpdTotal([c \in UpdCols(i) |->
                     UpdBar(UpdOldU(i), UpdOldU(UpdColumns(i)[c]),
                            UpdC(i, UpdColumns(i)[c]), upd_dij[i][c])[k]])]

\* 4 * r_i of row i, lines 533-542
UpdR(i) ==
  [k \in 1..3 |->
     UpdTotal([c \in UpdCols(i) |->
        LET j == UpdColumns(i)[c]
            temp == UpdBar(UpdOldU(i), UpdOldU(j), UpdC(i, j), 0)[k]
        IN  4 * UpdWeight * temp
            + upd_dij[i][c] * (UpdAlpha(i) + UpdAlpha(j)) * (UpdOldU(j)[k] - UpdOldU(i)[k])
            - 4 * UpdStageWeight * UpdStageTemp(i, j)[k]])]

\* step 3 on both ranks and the exchange of r_ (lines 482-580)
UpdStep3 ==
  /\ UpdFrame
  /\ upd_pc = "step3"
  /\ upd_new_U' = [i \in UpdDofs |-> [k \in 1..3 |-> UpdHighScale * UpdLowOrder(i)[k]]]
  /\ upd_r' = [i \in UpdDofs |-> UpdR(i)]
  /\ upd_pc' = IF upd_in.k = 0 THEN "done" ELSE "step4"
  /\ UNCHANGED <<upd_in, upd_round, upd_dij, upd_tau_max, upd_tau, upd_pij, upd_lij,
                 upd_lij_next>>

\* 4 * mass scale * p_ij / factor of the entry (i, c), lines 650-687
UpdP(i, c) ==
  LET j == UpdColumns(i)[c]
      diag == IF c = 1 THEN 1 ELSE 0
      b_ij == (diag * UpdLumped(j) - UpdMass(i, c)) * (UpdMassScale \div UpdLumped(j))
      b_ji == (diag * UpdLumped(i) - UpdMass(i, c)) * (UpdMassScale \div UpdLumped(i))
  IN  [k \in 1..3 |->
         UpdMassScale * upd_dij[i][c] * (UpdAlpha(i) + UpdAlpha(j) - 4)
           * (UpdOldU(j)[k] - UpdOldU(i)[k])
         + b_ij * upd_r[j][k] - b_ji * upd_r[i][k]
         + IF upd_in.stages = 0 THEN 0
           ELSE 4 * UpdMassScale
                * ((UpdWeight - 1)
                     * (0 - (UpdFlux(UpdOldU(j))[k] + UpdFlux(UpdOldU(i))[k]) * UpdC(i, j))
                   + UpdStageWeight
                     * (0 - (UpdFlux(UpdStageU(j))[k] + UpdFlux(UpdStageU(i))[k]) * UpdC(i, j)))]

\* step 4 on both ranks and the exchange of the rows of lij_matrix_
\* (lines 591-725)
UpdStep4 ==
  /\ UpdFrame
  /\ upd_pc = "step4"
  /\ upd_pij' = [i \in UpdDofs |-> [c \in UpdCols(i) |-> UpdP(i, c)]]
  /\ upd_lij' = [i \in UpdDofs |-> [c \in UpdCols(i) |-> UpdLimit(i, c, 0)]]
  /\ upd_lij_next' = [i \in UpdDofs |-> [c \in UpdCols(i) |-> 0]]
  /\ upd_pc' = "sweep"
  /\ UNCHANGED <<upd_in, upd_round, upd_dij, upd_tau_max, upd_tau, upd_new_U, upd_r>>

UpdLastRound == upd_round + 1 = upd_in.k

\* a sweep that applies the entry the row stores
UpdAppliedStored(i, c) == upd_lij[i][c]

\* std::min(get_entry(i, col_idx), get_transposed_entry(i, col_idx)), lines 779-781
UpdApplied(i, c) ==
  Min2(upd_lij[i][c], upd_lij[UpdColumns(i)[c]][UpdTransposed(i, c)])

\* the number of times pij_matrix_ was rewritten before this round
UpdRewrites == IF UpdShortcut THEN 0 ELSE upd_round

\* U_i_new += l_ij * lambda * p_ij over the columns of row i, lines 777-799
UpdHighOrder(i) ==
  [k \in 1..3 |->
     upd_new_U[i][k]
     + upd_tau[1] * (UpdMassScale \div UpdLumped(i))
       * (UpdLimScale \div (4 * (2 ^ UpdRewrites)))
       * UpdTotal([c \in UpdCols(i) |-> UpdApplied(i, c) * upd_pij[i][c][k]])]

\* a shortcut that stores the limiter result alone
UpdNextEntryPlain(i, c) == UpdLimit(i, c, upd_round + 1)

\* the entry written to lij_matrix_next_, lines 826-846: (1 - l_ij) * l_ij'
\* for two limiter steps, l_ij' otherwise
UpdNextEntry(i, c) ==
  IF UpdShortcut
    THEN ((4 - UpdApplied(i, c)) * UpdLimit(i, c, upd_round + 1)) \div 4
    ELSE UpdLimit(i, c, upd_round + 1)

\* a sweep that writes p_ij back as it found it
new_p_ij_kept(i, c) == [k \in 1..3 |-> 2 * upd_pij[i][c][k]]

\* new_p_ij = (1 - old_l_ij) * p_ij, lines 806-808, in the unit of the next
\* round
new_p_ij(i, c) == [k \in 1..3 |-> ((4 - UpdApplied(i, c)) \div 2) * upd_pij[i][c][k]]

\* one sweep on both ranks, the exchange of lij_matrix_next_ and the swap
\* (lines 735-876)
UpdSweep ==
  /\ UpdFrame
  /\ upd_pc = "sweep"
  /\ upd_new_U' = [i \in UpdDofs |-> UpdHighOrder(i)]
  /\ IF UpdLastRound
       THEN /\ upd_pc' = "done"
            /\ UNCHANGED <<upd_round, upd_pij, upd_lij, upd_lij_next>>
       ELSE /\ upd_pc' = "sweep"
            /\ upd_round' = upd_round + 1
            /\ upd_lij' = [i \in UpdDofs |-> [c \in UpdCols(i) |-> UpdNextEntry(i, c)]]
            /\ upd_lij_next' = upd_lij
            /\ upd_pij' =
                 IF UpdShortcut THEN upd_pij
                 ELSE [i \in UpdDofs |-> [c \in UpdCols(i) |-> new_p_ij(i, c)]]
  /\ UNCHANGED <<upd_in, upd_dij, upd_tau_max, upd_tau, upd_r>>

NextUpd == UpdStep12 \/ UpdStep3 \/ UpdStep4 \/ UpdSweep

(* ------------------------------------------------------------------ *)
(* Part 10: MultiComponentVector::import_component, export_component    *)
(* ------------------------------------------------------------------ *)

\* the largest number of locally owned degrees of freedom, of components and
\* of calls
MaxMcvDofs == 2
MaxComp == 2
MaxMcvOps == 3

\* scalar_vector.get_partitioner()->local_size()
local_size == mcv_cfg.n
\* the locally owned elements come first, the ghost elements follow
McvScalarRange == 0..(mcv_cfg.n + mcv_cfg.g - 1)
McvVectorRange == 0..(mcv_cfg.n_comp * (mcv_cfg.n + mcv_cfg.g) - 1)
McvComponents == 0..(mcv_cfg.n_comp - 1)

\* the scalar vectors handed to import_component: every element differs from
\* every element of the multicomponent vector
McvScalars == {[i \in McvScalarRange |-> 100 * s + i] : s \in 1..2}

\* the value the rank that owns the ghost i holds for it
McvRemote(i, c) == 1000 + 10 * i + c

InitMcv ==
  /\ mcv_cfg \in [n : 1..MaxMcvDofs, g : 0..1, n_comp : 1..MaxComp]
  /\ mcv_this = [k \in McvVectorRange |-> k]
  /\ mcv_prev = mcv_this
  /\ mcv_v = [i \in McvScalarRange |-> 0]
  /\ mcv_w = [i \in McvScalarRange |-> 0]
  /\ mcv_last = <<"none", 0>>
  /\ mcv_imported = [c \in McvComponents |-> <<>>]
  /\ mcv_ops = 0

\* a component-major index
McvIndexByComponent(i, c) == c * local_size + i

\* the flat index of component c of the local element i, lines 109 and 121
McvIndex(i, c) == i * mcv_cfg.n_comp + c

\* import_component(scalar_vector, component), lines 115-123
import_component(v, c) ==
  /\ McvFrame
  /\ mcv_ops < MaxMcvOps
  /\ mcv_ops' = mcv_ops + 1
  /\ mcv_prev' = mcv_this
  /\ mcv_v' = v
  /\ mcv_this' = [k \in McvVectorRange |->
                    IF \E i \in 0..(local_size - 1) : k = McvIndex(i, c)
                      THEN v[CHOOSE i \in 0..(local_size - 1) : k = McvIndex(i, c)]
                      ELSE mcv_this[k]]
  /\ mcv_imported' = [mcv_imported EXCEPT ![c] = v]
  /\ mcv_last' = <<"import", c>>
  /\ UNCHANGED <<mcv_cfg, mcv_w>>

\* export_component(scalar_vector, component), lines 103-112: the local
\* elements are copied, then update_ghost_values() fetches the ghosts
export_component(c) ==
  /\ McvFrame
  /\ mcv_ops < MaxMcvOps
  /\ mcv_ops' = mcv_ops + 1
  /\ mcv_w' = [i \in McvScalarRange |->
                 IF i < local_size THEN mcv_this[McvIndex(i, c)] ELSE McvRemote(i, c)]
  /\ mcv_last' = <<"export", c>>
  /\ UNCHANGED <<mcv_cfg, mcv_this, mcv_prev, mcv_v, mcv_imported>>

NextMcv ==
  \/ \E c \in McvComponents : \E v \in McvScalars : import_component(v, c)
  \/ \E c \in McvComponents : export_component(c)

(* ------------------------------------------------------------------ *)
(* Part 11: one row of pass 3, in floating-point arithmetic            *)
(* ------------------------------------------------------------------ *)

\* the largest stored off-diagonal d_ij and the largest state
MaxBarD == 2
MaxBarU == 2

\* A floating-point value: a finite number n / d (rounding is left out), an
\* infinity of sign n, or a NaN.
Finite(n, d) == [cls |-> "finite", n |-> n, d |-> d]
Infinite(s) == [cls |-> "inf", n |-> s, d |-> 0]
NotANumber == [cls |-> "nan", n |-> 0, d |-> 0]

Sgn(n) == IF n > 0 THEN 1 ELSE IF n < 0 THEN 0 - 1 ELSE 0

\* IEEE 754 multiplication, addition and division
FMul(x, y) ==
  IF x.cls = "nan" \/ y.cls = "nan" THEN NotANumber
  ELSE IF x.cls = "inf" \/ y.cls = "inf"
    THEN (IF x.n = 0 \/ y.n = 0 THEN NotANumber ELSE Infinite(Sgn(x.n) * Sgn(y.n)))
  ELSE Finite(x.n * y.n, x.d * y.d)

FAdd(x, y) ==
  IF x.cls = "nan" \/ y.cls = "nan" THEN NotANumber
  ELSE IF x.cls = "inf" /\ y.cls = "inf"
    THEN (IF x.n = y.n THEN x ELSE NotANumber)
  ELSE IF x.cls = "inf" THEN x
  ELSE IF y.cls = "inf" THEN y
  ELSE Finite(x.n * y.d + y.n * x.d, x.d * y.d)

\* a zero divisor is +0
FDiv(x, y) ==
  IF x.cls = "nan" \/ y.cls = "nan" THEN NotANumber
  ELSE IF x.cls = "inf" THEN (IF y.cls = "inf" THEN NotANumber
                              ELSE Infinite(IF y.n < 0 THEN 0 - x.n ELSE x.n))
  ELSE IF y.cls = "inf" THEN Finite(0, 1)
  ELSE IF y.n = 0 THEN (IF x.n = 0 THEN NotANumber ELSE Infinite(Sgn(x.n)))
  ELSE Finite(x.n * y.d * Sgn(y.n), x.d * y.n * Sgn(y.n))

\* the columns of the row: the diagonal and two neighbours
BarColumns == 0..2

\* the stored d_ij of a column: the diagonal is the negative sum of the row
BarD(c) == IF c = 0 THEN 0 - (bar_in.d[1] + bar_in.d[2]) ELSE bar_in.d[c]

\* U_j of a column (one component); column 0 is U_i
BarU(c) == bar_in.U[c + 1]

\* hyperbolic_system_->f(U), one component
BarFlux(U) == U * U

\* alpha_j of a column
BarAlpha(c) == IF c = 0 THEN bar_in.alpha_i ELSE 1

InitBar ==
  /\ bar_in \in [d : (0..MaxBarD) \X (0..MaxBarD),
                 U : (1..MaxBarU) \X (1..MaxBarU) \X (1..MaxBarU),
                 c : (0..1) \X {0 - 1, 1} \X {0 - 1, 1},
                 alpha_i : 0..1,
                 tau : 1..2]
  /\ bar_col = 0
  /\ bar_U_i_new = Finite(bar_in.U[1], 1)
  /\ bar_r_i = 0
  /\ bar_pc = "row"

\* a temp that leaves out the flux of the row
BarTempOfColumn(c) == BarFlux(BarU(c)) * bar_in.c[c + 1]

\* temp = (f_j[k] - f_i[k]) * c_ij, line 534
BarTemp(c) == (BarFlux(BarU(c)) - BarFlux(BarU(0))) * bar_in.c[c + 1]

\* d_ij_inv = Number(1.) / d_ij, line 531
d_ij_inv(c) == FDiv(Finite(1, 1), Finite(BarD(c), 1))

\* U_ij_bar[k] = Number(0.5) * (U_i[k] + U_j[k] - temp * d_ij_inv), line 536
U_ij_bar(c) ==
  FMul(Finite(1, 2),
       FAdd(Finite(BarU(0) + BarU(c), 1),
            FMul(Finite(0 - 1, 1), FMul(Finite(BarTemp(c), 1), d_ij_inv(c)))))

\* tau * m_i_inv, with a lumped mass of 4
BarTauMInv == Finite(bar_in.tau, 4)

\* One column of the row, lines 512-551:
\*   r_i[k] += weight * (-temp) + d_ijH * (U_j[k] - U_i[k])  with weight = 1,
\*   U_i_new += tau * m_i_inv * Number(2.) * d_ij * U_ij_bar.
BarColumn ==
  /\ BarFrame
  /\ bar_pc = "row"
  /\ bar_col \in BarColumns
  /\ bar_r_i' = bar_r_i - 2 * BarTemp(bar_col)
                 + BarD(bar_col) * (bar_in.alpha_i + BarAlpha(bar_col))
                   * (BarU(bar_col) - BarU(0))
  /\ bar_U_i_new' =
       FAdd(bar_U_i_new,
            FMul(FMul(FMul(BarTauMInv, Finite(2, 1)), Finite(BarD(bar_col), 1)),
                 U_ij_bar(bar_col)))
  /\ bar_col' = bar_col + 1
  /\ UNCHANGED <<bar_in, bar_pc>>

\* new_U.write_tensor(U_i_new, i) and r_.write_tensor(r_i, i), lines 554-555
BarWrite ==
  /\ BarFrame
  /\ bar_pc = "row"
  /\ bar_col \notin BarColumns
  /\ bar_pc' = "done"
  /\ UNCHANGED <<bar_in, bar_col, bar_U_i_new, bar_r_i>>

NextBar == BarColumn \/ BarWrite

(* ------------------------------------------------------------------ *)
(* Part 12: Limiter::reset, accumulate and apply_relaxation            *)
(* ------------------------------------------------------------------ *)

\* the largest density, the largest entropy and the largest number of calls
\* of accumulate
MaxRho == 2
MaxEntropy == 2
MaxAccumulate == 2

\* std::numeric_limits<ScalarNumber>::max() and the inverse of
\* std::numeric_limits<ScalarNumber>::epsilon(), in the units of the model
FloatMax == 1000
EpsInverse == 1000

FNeg(x) == [x EXCEPT !.n = 0 - x.n]
FAbs(x) == [x EXCEPT !.n = IF x.n < 0 THEN 0 - x.n ELSE x.n]

\* x < y of IEEE 754: false when an operand is a NaN
FLess(x, y) ==
  IF x.cls = "nan" \/ y.cls = "nan" THEN FALSE
  ELSE IF x.cls = "inf" THEN x.n < 0 /\ ~(y.cls = "inf" /\ y.n < 0)
  ELSE IF y.cls = "inf" THEN y.n > 0
  ELSE x.n * y.d < y.n * x.d

FLessEq(x, y) == x.cls # "nan" /\ y.cls # "nan" /\ ~FLess(y, x)

\* std::min(a, b) == (b < a) ? b : a and std::max(a, b) == (a < b) ? b : a
FMin(a, b) == IF FLess(b, a) THEN b ELSE a
FMax(a, b) == IF FLess(a, b) THEN b ELSE a

Num(n) == Finite(n, 1)

\* The state after construction: bounds_ and the accumulators hold what the
\* row before left. gamma_min_i is 1/2, 3/2 or 2.
InitLimiter ==
  /\ limiter_in \in [gamma_min_i : {Finite(1, 2), Finite(3, 2), Num(2)},
                     s_i : 0..MaxEntropy,
                     interpolation_b : 0..1]
  /\ limiter_pc = "new"
  /\ bounds_ = [rho_min |-> Num(1), rho_max |-> Num(1), s_min |-> Num(1),
                gamma_min |-> Num(2)]
  /\ relaxation = [numerator |-> Num(2), denominator |-> Num(1), s_interp_max |-> Num(1)]
  /\ accumulated = [rho |-> {}, s |-> {}]
  /\ n_accumulated = 0

\* Limiter::reset(i), lines 224-245
LimiterReset ==
  /\ LimiterFrame
  /\ limiter_pc = "new"
  /\ bounds_' = [rho_min |-> Num(FloatMax),
                 rho_max |-> Num(0),
                 s_min |-> Num(limiter_in.s_i),
                 gamma_min |-> limiter_in.gamma_min_i]
  /\ relaxation' = [numerator |-> Num(0), denominator |-> Num(0), s_interp_max |-> Num(0)]
  /\ accumulated' = [rho |-> {}, s |-> {}]
  /\ n_accumulated' = 0
  /\ limiter_pc' = "accumulate"
  /\ UNCHANGED limiter_in

\* an accumulate that leaves s_j out of s_min
accumulate_bar_only(rho_ij_bar, s_bar_ij, s_j) ==
  [bounds_ EXCEPT !.rho_min = FMin(@, Num(rho_ij_bar)),
                  !.rho_max = FMax(@, Num(rho_ij_bar)),
                  !.s_min = FMin(@, Num(s_bar_ij))]

\* the bounds after Limiter::accumulate, lines 262-287, for the density
\* rho_ij_bar and the entropy s_bar_ij of the bar state and the entropy s_j
\* of U_j
accumulate(rho_ij_bar, s_bar_ij, s_j) ==
  [bounds_ EXCEPT !.rho_min = FMin(@, Num(rho_ij_bar)),
                  !.rho_max = FMax(@, Num(rho_ij_bar)),
                  !.s_min = FMin(FMin(@, Num(s_j)), Num(s_bar_ij))]

\* Limiter::accumulate, lines 249-297, with beta_ij = 1: the hyperbolic
\* system returns rho_i + rho_j (both states at the least or at the largest
\* density), the density of the bar state and the entropies
LimiterAccumulate ==
  /\ LimiterFrame
  /\ limiter_pc = "accumulate"
  /\ n_accumulated < MaxAccumulate
  /\ \E rho_sum \in {2, 2 * MaxRho}, rho_ij_bar \in 0..MaxRho :
     \E s_bar_ij \in 0..MaxEntropy, s_j \in 0..MaxEntropy, s_interp \in {0, MaxEntropy} :
       /\ bounds_' = accumulate(rho_ij_bar, s_bar_ij, s_j)
       /\ relaxation' =
            [numerator |-> FAdd(relaxation.numerator, FMul(Num(1), Num(rho_sum))),
             denominator |-> FAdd(relaxation.denominator, Num(1)),
             s_interp_max |-> FMax(relaxation.s_interp_max, Num(s_interp))]
       /\ accumulated' = [rho |-> accumulated.rho \cup {rho_ij_bar},
                          s |-> accumulated.s \cup {s_bar_ij, s_j}]
  /\ n_accumulated' = n_accumulated + 1
  /\ UNCHANGED <<limiter_in, limiter_pc>>

\* rho_relaxation, lines 315-318
rho_relaxation ==
  FDiv(FAbs(relaxation.numerator),
       FAdd(FAbs(relaxation.denominator), Finite(1, EpsInverse)))

\* the covolume bound of rho_max, lines 331-337
upper_bound ==
  FDiv(FMul(FAdd(bounds_.gamma_min, Num(1)), bounds_.rho_max),
       FAdd(FAdd(bounds_.gamma_min, Num(0 - 1)),
            FMul(FMul(Num(2), Num(limiter_in.interpolation_b)), bounds_.rho_max)))

\* a relaxation that scales rho_min by 1 + r_i
apply_relaxation_up(r_i) ==
  [bounds_ EXCEPT
     !.rho_min = FMax(FMul(FAdd(Num(1), r_i), @), FAdd(@, FNeg(rho_relaxation))),
     !.s_min = FMax(FMul(FAdd(Num(1), FNeg(r_i)), @),
                    FAdd(FMul(Num(2), @), FNeg(relaxation.s_interp_max))),
     !.rho_max = LET capped == FMin(upper_bound, FMul(FAdd(Num(1), r_i), @))
                 IN FMin(capped, FAdd(capped, rho_relaxation))]

\* the bounds after Limiter::apply_relaxation, lines 320-340, for the r_i of
\* lines 308-313
apply_relaxation(r_i) ==
  [bounds_ EXCEPT
     !.rho_min = FMax(FMul(FAdd(Num(1), FNeg(r_i)), @), FAdd(@, FNeg(rho_relaxation))),
     !.s_min = FMax(FMul(FAdd(Num(1), FNeg(r_i)), @),
                    FAdd(FMul(Num(2), @), FNeg(relaxation.s_interp_max))),
     !.rho_max = LET capped == FMin(upper_bound, FMul(FAdd(Num(1), r_i), @))
                 IN FMin(capped, FAdd(capped, rho_relaxation))]

\* Limiter::apply_relaxation(hd_i, factor), lines 302-341: hd_i and factor
\* give an r_i of 0, 1/2, 1 or 3/2
LimiterApplyRelaxation ==
  /\ LimiterFrame
  /\ limiter_pc = "accumulate"
  /\ \E h \in 0..3 : bounds_' = apply_relaxation(Finite(h, 2))
  /\ limiter_pc' = "relaxed"
  /\ UNCHANGED <<limiter_in, relaxation, accumulated, n_accumulated>>

NextLimiter == LimiterReset \/ LimiterAccumulate \/ LimiterApplyRelaxation

(* ------------------------------------------------------------------ *)
(* Part 13: create_vector_partitioner<n_comp>                          *)
(* ------------------------------------------------------------------ *)

\* the largest size() of a scalar partitioner
MaxPartSize == 5

PartIndices(n) == 0..(n - 1)

\* the intervals of an IndexSet: its maximal runs <<first, last>>, handed out
\* in increasing order by begin_intervals() ... end_intervals()
IntervalsOf(S) ==
  {r \in S \X S : /\ r[1] <= r[2]
                  /\ \A k \in r[1]..r[2] : k \in S
                  /\ (r[1] - 1) \notin S /\ (r[2] + 1) \notin S}
NthInterval(S, n) ==
  CHOOSE r \in IntervalsOf(S) : Cardinality({q \in IntervalsOf(S) : q[1] < r[1]}) = n

\* A partitioner as deal.II holds it: the locally owned range is one run of
\* indices (it can be empty) and no ghost index is locally owned.
InitPart ==
  /\ part_n_comp \in 1..MaxComp
  /\ \E n \in 1..MaxPartSize : \E a \in 0..n : \E b \in a..n :
     \E g \in SUBSET (PartIndices(n) \ (a..(b - 1))) :
       scalar_partitioner = [size |-> n, owned |-> a..(b - 1), ghost |-> g]
  /\ vector_owned_set = {}
  /\ vector_ghost_set = {}
  /\ part_pc = "owned"
  /\ part_it = 0
  /\ vector_partitioner = <<>>

\* a range that ends with the first component of the last index
ScaledRangeShort(r) == (r[1] * part_n_comp)..(r[2] * part_n_comp)

\* the indices add_range(*it->begin() * n_comp, (it->last() + 1) * n_comp)
\* adds for the interval r, lines 31-32 and 38-39: the end is not included
ScaledRange(r) == (r[1] * part_n_comp)..((r[2] + 1) * part_n_comp - 1)

\* one interval of the loop over locally_owned_range(), lines 28-32
AddOwnedRange ==
  /\ PartFrame
  /\ part_pc = "owned"
  /\ part_it < Cardinality(IntervalsOf(scalar_partitioner.owned))
  /\ vector_owned_set' =
       vector_owned_set \cup ScaledRange(NthInterval(scalar_partitioner.owned, part_it))
  /\ part_it' = part_it + 1
  /\ UNCHANGED <<scalar_partitioner, part_n_comp, vector_ghost_set, part_pc, vector_partitioner>>

\* the end of the first loop, compress() and the creation of
\* vector_ghost_set, lines 33-34
BeginGhostSet ==
  /\ PartFrame
  /\ part_pc = "owned"
  /\ part_it = Cardinality(IntervalsOf(scalar_partitioner.owned))
  /\ part_pc' = "ghost"
  /\ part_it' = 0
  /\ vector_ghost_set' = {}
  /\ UNCHANGED <<scalar_partitioner, part_n_comp, vector_owned_set, vector_partitioner>>

\* one interval of the loop over ghost_indices(), lines 35-39
AddGhostRange ==
  /\ PartFrame
  /\ part_pc = "ghost"
  /\ part_it < Cardinality(IntervalsOf(scalar_partitioner.ghost))
  /\ vector_ghost_set' =
       vector_ghost_set \cup ScaledRange(NthInterval(scalar_partitioner.ghost, part_it))
  /\ part_it' = part_it + 1
  /\ UNCHANGED <<scalar_partitioner, part_n_comp, vector_owned_set, part_pc, vector_partitioner>>

\* compress() and the constructor of the partitioner, lines 40-47: both index
\* sets were created with the size n_comp * size(); the constructor takes
\* the locally owned indices out of the ghost set
MakePartitioner ==
  /\ PartFrame
  /\ part_pc = "ghost"
  /\ part_it = Cardinality(IntervalsOf(scalar_partitioner.ghost))
  /\ vector_partitioner' = [size |-> part_n_comp * scalar_partitioner.size,
                            owned |-> vector_owned_set,
                            ghost |-> vector_ghost_set \ vector_owned_set]
  /\ part_pc' = "done"
  /\ UNCHANGED <<scalar_partitioner, part_n_comp, vector_owned_set, vector_ghost_set, part_it>>

NextPart == AddOwnedRange \/ BeginGhostSet \/ AddGhostRange \/ MakePartitioner

(* ------------------------------------------------------------------ *)
(* Properties                                                          *)
(* ------------------------------------------------------------------ *)

(* C1: from construction to the end of the destructor the payload runs     *)
(* exactly once: never twice at any time, once when the destructor has     *)
(* returned; a run from check() is the one of the call that made the       *)
(* counter reach the team size, a run from the destructor happens only     *)
(* when no check() ran it.                                                 *)
C1_PayloadExactlyOnce ==
  /\ payload_calls <= 1
  /\ (dpc = "destroyed" => payload_calls = 1)
  /\ (fired_by = "check" => executed_payload_ /\ n_threads_ready = num_threads)
  /\ (fired_by = "destructor" => ~executed_payload_ /\ dpc = "destroyed")
  /\ (fired_by = "none" => payload_calls = 0)

\* a team of two whose last check() call ran the payload, after the destructor
C1_Witness ==
  /\ dpc = "destroyed"
  /\ num_threads = 2
  /\ fired_by = "check"
  /\ payload_calls = 1

(* C2: at the end of step(), a set restart flag (after the OR-reduce) makes   *)
(* exactly one counter grow by exactly one: n_warnings_ under "warn", and    *)
(* step() returns tau_max; n_restarts_ under "raise_exception", and step()   *)
(* throws Restart. With the flag not set no counter changes and step()       *)
(* returns tau_max. Before the end of step() no counter changes.             *)
C2_RestartCounters ==
  /\ (result \in {"running", "fatal"} =>
        n_restarts_ = restarts_at_entry /\ n_warnings_ = warnings_at_entry)
  /\ (result = "returned" /\ restart_needed =>
        /\ id_violation_strategy_ = "warn"
        /\ n_warnings_ = warnings_at_entry + 1
        /\ n_restarts_ = restarts_at_entry
        /\ ret = tau_max)
  /\ (result = "restart" =>
        /\ restart_needed
        /\ id_violation_strategy_ = "raise_exception"
        /\ n_restarts_ = restarts_at_entry + 1
        /\ n_warnings_ = warnings_at_entry)
  /\ (result = "returned" /\ ~restart_needed =>
        /\ n_restarts_ = restarts_at_entry
        /\ n_warnings_ = warnings_at_entry
        /\ ret = tau_max)

\* a call that warned, followed by a call that threw Restart after a failed limit()
C2_Witness ==
  /\ result = "restart"
  /\ failed_at # {}
  /\ n_warnings_ = 1
  /\ n_restarts_ = 1

(* C7: the passes compute with tau_max when step() was called with tau = 0   *)
(* and with the caller's tau when it is not zero, also when that is larger   *)
(* than tau_max; the value returned is tau_max.                              *)
C7_TauChoice ==
  /\ (tau_used # -1 => tau_used = (IF tau_in = 0 THEN tau_max ELSE tau_in))
  /\ (result = "returned" =>
        /\ ret = tau_max
        /\ tau_used = tau
        /\ tau = (IF tau_in = 0 THEN tau_max ELSE tau_in))

\* a call with a tau larger than tau_max returned tau_max and computed with tau
C7_Witness ==
  /\ result = "returned"
  /\ tau_in > tau_max
  /\ tau_used = tau_in
  /\ ret = tau_max
  /\ ret # tau_used

(* C9: every halo exchange started in step() is finished exactly once, after *)
(* its start; no finish comes without a pending start; a pass reads ghost    *)
(* entries of an object only after the exchange that follows the last write  *)
(* of its owned entries has finished; nothing is pending when step() has     *)
(* returned or thrown.                                                      *)
C9_HaloPairs ==
  /\ ~halo_fault
  /\ ~stale_read
  /\ \A o \in HaloObjects :
       /\ n_finished[o] <= n_started[o]
       /\ n_started[o] <= n_finished[o] + 1
       /\ (halo[o] = "pending" <=> n_started[o] = n_finished[o] + 1)
  /\ (result \in {"idle", "returned", "restart", "fatal"} =>
        \A o \in HaloObjects : halo[o] = "idle" /\ n_started[o] = n_finished[o])

\* three limiter iterations: l_ij_next was exchanged twice, and step() threw Restart
C9_Witness ==
  /\ result = "restart"
  /\ limiter_iter_ = 3
  /\ n_finished["lij_matrix_next_"] = 2
  /\ n_finished["r_"] = 1
  /\ Len(tags) = 7

IsPrefix(s, t) == Len(s) <= Len(t) /\ \A n \in 1..Len(s) : s[n] = t[n]

\* the passes of a complete step() with k limiter iterations, in order
FullPasses(k) ==
  <<"p0", "p1", "p2", "p3">> \o (IF k = 0 THEN <<>> ELSE <<"p4">> \o [n \in 1..k |-> "sweep"])

\* the exchanges of a complete step() with k limiter iterations and their tags
ExpectedTags(k) ==
  <<(<<"indicator_precomputed_values_", 10>>), (<<"limiter_precomputed_values_", 11>>),
    (<<"alpha_", 12>>)>>
  \o (IF k = 0 THEN <<>>
      ELSE <<(<<"r_", 13>>), (<<"lij_matrix_", 14>>)>>
           \o [n \in 1..(k - 1) |-> <<"lij_matrix_next_", 14 + n>>])

\* the last pass so far that wrote new_U
LastNewUWriter ==
  LET idx == {n \in 1..Len(passes_run) : WritesNewU(passes_run[n])} IN
  IF idx = {} THEN "none" ELSE passes_run[CHOOSE n \in idx : \A m \in idx : m <= n]

(* C13: with limiter_iter_ = 0 step() runs steps 0 to 3 and nothing else; the  *)
(* new_U it returns is the one step 3 wrote; no exchange of r, l_ij or        *)
(* l_ij_next is started or finished, no step-4 or sweep loop (the writers of  *)
(* p_ij, l_ij, l_ij_next) runs; the restart flag is never set, Restart is     *)
(* never thrown, and both counters keep their value.                          *)
C13_LowOrderOnly ==
  limiter_iter_ = 0 /\ spc # "parked" =>
    /\ IsPrefix(passes_run, FullPasses(0))
    /\ (result = "returned" =>
          passes_run = <<"p0", "p1", "p2", "p3">> /\ LastNewUWriter = "p3")
    /\ \A o \in {"r_", "lij_matrix_", "lij_matrix_next_"} :
         /\ n_started[o] = 0 /\ n_finished[o] = 0 /\ halo[o] = "idle"
         /\ \A n \in 1..Len(tags) : tags[n][1] # o
    /\ ~restart_needed
    /\ failed_at = {}
    /\ result # "restart"
    /\ n_restarts_ = 0 /\ n_warnings_ = 0
    /\ thrown_restarts = 0 /\ flagged_returns = 0

\* the second step() of a run with limiter_iter_ = 0 has returned
C13_Witness ==
  /\ limiter_iter_ = 0
  /\ n_steps = 2
  /\ result = "returned"
  /\ passes_run = <<"p0", "p1", "p2", "p3">>

(* C14: over every sequence of prepare(), step() and apply_boundary_conditions() *)
(* calls neither counter decreases; a counter changes only in the last part of   *)
(* step(), after the logical_or; prepare() and apply_boundary_conditions() leave *)
(* both as they are; n_restarts_ is the number of step() calls that threw        *)
(* Restart and n_warnings_ the number of step() calls that returned with the     *)
(* restart flag set.                                                             *)
C14_Counters ==
  [][/\ n_restarts_' >= n_restarts_
     /\ n_warnings_' >= n_warnings_
     /\ (n_restarts_' # n_restarts_ \/ n_warnings_' # n_warnings_ =>
           spc = "final" /\ spc' = "idle")
     /\ n_restarts_' = thrown_restarts'
     /\ n_warnings_' = flagged_returns'
     /\ (n_restarts_' = n_restarts_ + 1 <=> result' = "restart" /\ spc = "final")
     /\ (n_warnings_' = n_warnings_ + 1 <=>
           result' = "returned" /\ restart_needed' /\ spc = "final")]_vars

\* prepare() was called again after a step() that warned and a step() that threw
C14_Witness ==
  /\ result = "prepared"
  /\ n_restarts_ = 1
  /\ n_warnings_ = 1
  /\ n_steps = 2

(* C15: a failed limit() does not interrupt step(): the restart flag stays set  *)
(* from the failure to the end of the call, every remaining pass runs and every  *)
(* exchange is started and finished as in a call without a failure, and Restart  *)
(* is thrown only at the end, after the logical_or.                              *)
C15_FailureRunsToEnd ==
  /\ (failed_at # {} => restart_needed)
  /\ (failed_at # {} /\ result \in {"returned", "restart"} =>
        /\ passes_run = FullPasses(limiter_iter_)
        /\ tags = ExpectedTags(limiter_iter_)
        /\ \A o \in HaloObjects : n_finished[o] = n_started[o] /\ halo[o] = "idle")
  /\ (result = "restart" => spc = "idle" /\ passes_run = FullPasses(limiter_iter_))
  /\ (result = "running" => n_restarts_ = restarts_at_entry)

\* limit() failed in step 4 of a call with three sweeps, and Restart was thrown
C15_Witness ==
  /\ result = "restart"
  /\ limiter_iter_ = 3
  /\ <<"p4", 0>> \in failed_at
  /\ passes_run = FullPasses(3)

(* C17: channel is 10 when step() begins; every exchange started in the call  *)
(* gets a tag larger than the tags of all exchanges started before it; which   *)
(* tag an exchange gets depends on limiter_iter_ alone, not on whether a        *)
(* payload ran from check() or from the destructor.                             *)
C17_Tags ==
  spc \notin {"parked"} =>
    /\ channel = 10 + Len(tags)
    /\ \A a, b \in 1..Len(tags) : a < b => tags[a][2] < tags[b][2]
    /\ IsPrefix(tags, ExpectedTags(limiter_iter_))
    /\ (result \in {"returned", "restart"} => tags = ExpectedTags(limiter_iter_))

\* three sweeps: the second exchange of l_ij_next got tag 16, step() returned
C17_Witness ==
  /\ result = "returned"
  /\ limiter_iter_ = 3
  /\ Len(tags) = 7
  /\ tags[7] = <<"lij_matrix_next_", 16>>
  /\ channel = 17

(* C19: a prepare() called directly after a prepare() leaves every vector and  *)
(* matrix of the module with the size and the entries it had; no prepare()     *)
(* changes the counters, cfl or the violation strategy.                        *)
C19_PrepareIdempotent ==
  [][Len(calls') > Len(calls) /\ calls'[Len(calls')] = "prepare" =>
       /\ mod_counters' = mod_counters
       /\ mod_cfl' = mod_cfl
       /\ mod_strategy' = mod_strategy
       /\ Prepared'
       /\ (calls # <<>> /\ calls[Len(calls)] = "prepare" => storage' = storage)]_vars

\* prepare() twice in a row after a step() that counted under a changed strategy
C19_Witness ==
  /\ Len(calls) = 4
  /\ calls[2] = "step" /\ calls[3] = "prepare" /\ calls[4] = "prepare"
  /\ mod_counters # <<0, 0>>
  /\ Len(storage["pij_matrix_"]) = 2 * n_nonzero(offline_n)

\* the boundary rules of the first n entries for g in a map, in order, applied to u
RECURSIVE RulesApplied(_, _, _, _)
RulesApplied(map, n, g, u) ==
  IF n = 0 THEN u
  ELSE LET before == RulesApplied(map, n - 1, g, u) IN
       IF map[n][1] = g /\ map[n][2] # "do_nothing"
         THEN BoundaryRule(map[n][2], before, g, bc_t)
         ELSE before

(* C20: apply_boundary_conditions(U, t) changes no owned entry but those of the *)
(* degrees of freedom that are in the boundary map with an id other than        *)
(* do_nothing; such an entry becomes the boundary rule of its id applied to the *)
(* value it held; the ghost entries are updated after the rank (and the owner)  *)
(* has written all its boundary entries, and hold the owners' values when the   *)
(* call returns.                                                                *)
C20_BoundaryFrame ==
  \A r \in DOMAIN bc_pc :
    /\ \A g \in BcOwned(r) :
         /\ bc_U[r][g] = RulesApplied(boundary_map[r], bc_pos[r], g, BcOld(g))
         /\ ((\A n \in 1..Len(boundary_map[r]) :
                boundary_map[r][n][1] = g => boundary_map[r][n][2] = "do_nothing")
             => bc_U[r][g] = BcOld(g))
    /\ (bc_pc[r] # "loop" => bc_pos[r] = Len(boundary_map[r]))
    /\ \A g \in BcDofs \ BcOwned(r) :
         /\ (bc_pc[r] # "done" => bc_U[r][g] = BcStale)
         /\ (bc_pc[r] = "done" =>
               LET q == BcOwner(g) IN
               bc_U[r][g] = RulesApplied(boundary_map[q], Len(boundary_map[q]), g, BcOld(g)))

\* both ranks have returned; rank 1 changed an entry twice (slip, then dirichlet),
\* left a do_nothing entry alone, and holds the no_slip result of rank 2 as ghost
C20_Witness ==
  /\ bc_pc = [r \in BcRanks |-> "done"]
  /\ boundary_map[1] = <<(<<0, "slip">>), (<<0, "dirichlet">>), (<<1, "do_nothing">>)>>
  /\ boundary_map[2] = <<(<<MaxBcDofs - 1, "no_slip">>)>>
  /\ bc_U[1][0] = initial_state(0, bc_t)
  /\ bc_U[1][1] = BcOld(1)
  /\ bc_U[1][MaxBcDofs - 1] = <<BcOld(MaxBcDofs - 1)[1], 0>>

(* C16: in every loop of step() a location of d_ij, p_ij, l_ij, l_ij_next,   *)
(* alpha, r, bounds or new_U is written by one thread at most, no thread     *)
(* reads a location that another thread writes in the same loop, and a       *)
(* location that is read through another row (a transposed entry, or a       *)
(* value at a column index) is written by no thread in that loop.            *)
C16_NoDataRace ==
  /\ \A t, u \in DOMAIN race_w :
       t # u => race_w[t] \cap (race_w[u] \cup race_r[u]) = {}
  /\ \A t \in DOMAIN race_w : race_w[t] \cap race_x = {}

\* two threads are in a sweep that computes the next l_ij: one has read a
\* transposed entry of the row for which the other has written the next l_ij
C16_Witness ==
  /\ race_phase = "sweep"
  /\ race_k = 3
  /\ \E t, u \in DOMAIN race_w :
       /\ t # u
       /\ \E x \in race_r[t], y \in race_w[u] :
            /\ x[1] = "lij_matrix_" /\ y[1] = "lij_matrix_next_"
            /\ x[2] = y[2] /\ x[3] = y[3] /\ x[3] # 0
            /\ x \in race_x

(* C3: restart is collective. When a limit() call failed on any rank, no    *)
(* rank returns without a warning; the ranks that have left step() all left *)
(* it the same way: all returned clean, all warned, or all threw Restart.    *)
C3_CollectiveRestart ==
  LET Left == {r \in Ranks : rpc[r] \in {"returned", "warned", "restart"}} IN
  /\ \A r1 \in Left : \A r2 \in Left : rpc[r1] = rpc[r2]
  /\ \A r \in Left :
       (\E q \in Ranks : or_sent[q] = "true") <=> rpc[r] # "returned"
  /\ \A r \in Left :
       /\ rpc[r] = "warned" =>
            rank_strategy = "warn" /\ rank_n_warnings[r] = 1 /\ rank_n_restarts[r] = 0
       /\ rpc[r] = "restart" =>
            rank_strategy = "raise_exception" /\ rank_n_restarts[r] = 1 /\ rank_n_warnings[r] = 0
       /\ rpc[r] = "returned" => rank_n_restarts[r] = 0 /\ rank_n_warnings[r] = 0

\* limit() failed on rank 1 alone, and both ranks threw Restart
C3_Witness ==
  /\ n_ranks = 2
  /\ or_sent[1] = "true"
  /\ or_sent[2] = "false"
  /\ rpc[1] = "restart"
  /\ rpc[2] = "restart"

(* C8: when the tau_max that the min-reduction returns is infinite or not    *)
(* greater than zero, step() fails on the rank, before step 3 runs; all      *)
(* ranks see the same reduced value, so all fail or none does; with no       *)
(* candidate on any rank tau_max is still infinite and the step fails.       *)
C8_FatalTauMax ==
  LET Past == {r \in Ranks : rpc[r] \notin {"passes012", "min"}} IN
  /\ \A r \in Past :
       /\ rank_tau_max[r] = MinOver(min_sent, n_ranks)
       /\ rpc[r] = "fatal" <=>
            (rank_tau_max[r] = Inf \/ rank_tau_max[r] = NegInf \/ rank_tau_max[r] <= 0)
       /\ rpc[r] = "fatal" => ~rank_pass3[r]
       /\ rank_pass3[r] <=> rpc[r] # "fatal"
  /\ \A r1 \in Past : \A r2 \in Past : (rpc[r1] = "fatal") <=> (rpc[r2] = "fatal")
  /\ \A r \in Ranks : rank_pass3[r] => r \in Past

\* no rank had a candidate: tau_max is infinite on both ranks, and both failed
C8_Witness ==
  /\ n_ranks = 2
  /\ \A r \in Ranks : min_sent[r] = Inf /\ rpc[r] = "fatal" /\ rank_tau_max[r] = Inf

(* C4: after step 2, for every off-diagonal entry (i,j) of an owned           *)
(* unconstrained row whose column j is owned as well, the stored d_ij equals   *)
(* the stored d_ji reached through the transposed position, under every        *)
(* schedule of the threads; the common value is the one the upper triangle    *)
(* received in step 1 and in the loop over the boundary pairs.                *)
C4_SymmetricOwned ==
  qpc = "done" =>
    \A e \in OwnedEdges :
      LET i == e[1]
          j == Col(e[1], e[2])
          up == IF i < j THEN e ELSE <<j, TransposedCol(e[1], e[2])>>
          lo == Min2(i, j)
          hi == Max2(i, j)
      IN j < n_owned =>
           /\ get_entry(e[1], e[2]) = get_transposed_entry(e[1], e[2])
           /\ get_entry(e[1], e[2]) =
                IF up \in coupling_boundary_pairs
                  THEN Max2(Estimate(lo, hi), Estimate(hi, lo))
                  ELSE Estimate(lo, hi)

\* two threads, a SIMD group, one-sided estimates that differ, and a boundary pair
C4_Witness ==
  /\ qpc = "done"
  /\ num_threads = 2
  /\ n_internal = 2
  /\ Estimate(0, 1) # Estimate(1, 0)
  /\ <<0, 2>> \in coupling_boundary_pairs
  /\ get_entry(1, 1) = get_entry(0, 2)
  /\ get_entry(0, 2) = Max2(Estimate(0, 1), Estimate(1, 0))

(* C4 as stated: after step 2 the stored d_ij equals the stored d_ji for      *)
(* every off-diagonal entry of an owned unconstrained row, ghost columns       *)
(* included.                                                                   *)
C4_SymmetricAll ==
  qpc = "done" =>
    \A e \in OwnedEdges : get_entry(e[1], e[2]) = get_transposed_entry(e[1], e[2])

RECURSIVE SumOver(_, _)
SumOver(i, c) == IF c = 0 THEN 0 ELSE get_entry(i, c) + SumOver(i, c - 1)

(* C5: a row of the symmetrize loop that is complete, and so every owned      *)
(* unconstrained row after step 2, has a diagonal equal to the negative of the *)
(* sum of its off-diagonal entries as they stand.                              *)
C5_ZeroRowSum ==
  \A i \in row_finished \ constrained :
    get_entry(i, 0) = 0 - SumOver(i, row_length(i) - 1)

\* a scalar row with one entry below and one above the diagonal, after step 2
C5_Witness ==
  /\ qpc = "done"
  /\ num_threads = 2
  /\ n_internal = 0
  /\ Estimate(0, 1) # Estimate(1, 0)
  /\ row_length(1) = 3
  /\ get_entry(1, 0) = 0 - (Estimate(0, 1) + Estimate(1, 2))

\* the candidates offered so far
OfferedTaus == {offered[i] : i \in {r \in OwnedRows : offered[r] # 0}}

MinOfferedBy(S) == MinOf({Inf} \cup {offered[i] : i \in {r \in S : offered[r] # 0}})

(* C6: the tau_max the compare-exchange loop leaves is the minimum of         *)
(* infinity and of the tau of every row that takes part, under every           *)
(* interleaving and with spurious failures; a row that has left its loop has   *)
(* tau_max at or below its tau, and no store ever raises tau_max.              *)
C6_TauMaxIsMin ==
  qpc \in {"symm", "done"} =>
    /\ ~tau_max_raised
    /\ dij_tau_max \in {Inf} \cup OfferedTaus
    /\ dij_tau_max <= MinOfferedBy(row_finished)
    /\ dij_tau_max >= MinOfferedBy(OwnedRows)
    /\ qpc = "done" =>
         /\ dij_tau_max = MinOfferedBy(OwnedRows)
         /\ \A i \in OwnedRows :
              (i \notin constrained /\ (i \notin boundary \/ cfl_with_boundary_dofs_))
                <=> offered[i] # 0

\* a thread holds a tau below tau_max and a current_tau_max that another thread
\* has lowered since it was loaded, after an exchange has failed spuriously
C6_Witness ==
  /\ qpc = "symm"
  /\ n_spurious = 1
  /\ dij_tau_max < Inf
  /\ \E t \in Threads :
       /\ wphase[t] = "cas"
       /\ current_tau_max[t] > dij_tau_max
       /\ wtau[t] < dij_tau_max

(* C10: in every limiter sweep the coefficient a row i applies to the edge   *)
(* (i,j) equals the coefficient the row j, on its rank, applies to (j,i): both *)
(* are the minimum of the two stored entries. The coefficient and every        *)
(* stored entry lie in [0,1], also the entries (1 - l_ij) * l_ij' written with *)
(* two limiter iterations.                                                     *)
C10_SymmetricCoefficient ==
  sweep_pc \in {"sweep", "done"} =>
    /\ \A i \in sweep_rows_done \ constrained : \A c \in 0..(row_length(i) - 1) :
         LET j == Col(i, c) IN
         /\ applied[i][c] = Min2(lij_matrix_[Owner(i)][i][c],
                                 lij_matrix_[Owner(j)][j][TransposedCol(i, c)])
         /\ j \in sweep_rows_done => applied[i][c] = applied[j][TransposedCol(i, c)]
         /\ applied[i][c] >= 0
         /\ applied[i][c] <= One
    /\ \A r \in SweepRanks : \A i \in AllRows \ constrained : \A c \in 0..(row_length(i) - 1) :
         /\ lij_matrix_[r][i][c] >= 0 /\ lij_matrix_[r][i][c] <= One
         /\ lij_matrix_next_[r][i][c] >= 0 /\ lij_matrix_next_[r][i][c] <= One

\* the second sweep of two: the rows 0 and 1 lie on different ranks, limit()
\* returned different coefficients for the two directions of their edge, and
\* both rows applied the same coefficient strictly between 0 and 1
C10_Witness ==
  /\ sweep_pc = "done"
  /\ sweep_limiter_iter = 2
  /\ sweep_round = 1
  /\ n_owned = 1
  /\ constrained = {}
  /\ limit(0, 2, 1) # limit(1, 1, 1)
  /\ applied[0][2] = applied[1][1]
  /\ applied[0][2] > 0
  /\ applied[0][2] < One

\* the scale of upd_new_U: the denominator of tau, the mass scale and the
\* denominators of r_, p_ij and l_ij
UpdScale == upd_tau[2] * UpdMassScale * UpdHighScale

\* sum_i m_i * U_i in component k, of the new and of the old state
UpdNewTotal(k) ==
  UpdTotal([n \in 1..MaxUpdDofs |-> UpdLumped(n - 1) * upd_new_U[n - 1][k]])
UpdOldTotal(k) ==
  UpdTotal([n \in 1..MaxUpdDofs |-> UpdLumped(n - 1) * UpdScale * UpdOldU(n - 1)[k]])

(* C11: on a mesh without boundary one step() leaves the mass-weighted      *)
(* total of every component unchanged: sum_i m_i new_U_i = sum_i m_i        *)
(* old_U_i, for every number of limiter iterations and every outcome of     *)
(* the limiter, on one rank and on two                                      *)
C11_Conservation ==
  (upd_pc = "done" /\ UpdPeriodic) => \A k \in 1..3 : UpdNewTotal(k) = UpdOldTotal(k)

\* a finished step on the ring, on two ranks, with at least two sweeps, wave
\* speed estimates that differ between the two directions of an edge, limiter
\* coefficients that differ between the two sides of an edge, and a state
\* that changed
C11_Witness ==
  /\ upd_pc = "done" /\ UpdPeriodic
  /\ upd_in.k >= 2 /\ upd_in.split < MaxUpdDofs
  /\ \E i \in UpdDofs : \E c \in UpdCols(i) :
       upd_lij[i][c] # upd_lij[UpdColumns(i)[c]][UpdTransposed(i, c)]
  /\ \E i \in UpdDofs : \E j \in UpdDofs : UpdEstimate(i, j) # UpdEstimate(j, i)
  /\ \E i \in UpdDofs : \E k \in 1..3 : upd_new_U[i][k] # UpdScale * UpdOldU(i)[k]

\* old_U holds one state at every degree of freedom
UpdSameState == \A i \in UpdDofs : UpdOldU(i) = UpdOldU(0)
\* and so does the state of every earlier stage handed to step()
UpdSameStages == upd_in.stages = 0 \/ \A i \in UpdDofs : UpdStageU(i) = UpdOldU(0)

\* new_U_i = old_U_i in every component of every row
UpdUnchanged == \A i \in UpdDofs : \A k \in 1..3 : upd_new_U[i][k] = UpdScale * UpdOldU(i)[k]

\* C18 as stated: on a constant state step() returns tau_max = infinity and
\* writes new_U_i = old_U_i
C18_Original ==
  (upd_pc = "done" /\ UpdSameState) => (upd_tau_max = <<1, 0>> /\ UpdUnchanged)

(* C18, amended: when old_U and the states of the earlier stages hold the   *)
(* same state at every degree of freedom, step() does not fail, returns a   *)
(* finite positive tau_max, and in exact arithmetic writes new_U_i =        *)
(* old_U_i for every row                                                    *)
C18_Noop ==
  (UpdSameState /\ UpdSameStages) =>
    /\ upd_pc # "fatal"
    /\ upd_pc \in {"step3", "step4", "sweep", "done"} =>
         (upd_tau_max[1] > 0 /\ upd_tau_max[2] > 0)
    /\ upd_pc = "done" => UpdUnchanged

\* a finished step on a constant state with limiter sweeps and an earlier
\* stage
C18_Witness ==
  /\ upd_pc = "done" /\ UpdSameState /\ UpdSameStages
  /\ upd_in.k >= 2 /\ upd_in.stages = 1
  /\ \E i \in UpdDofs : \E c \in UpdCols(i) : c # 1 /\ upd_lij[i][c] > 0 /\ upd_dij[i][c] > 0

\* new_U of a step without limiter iterations, times the denominator of tau
\* and the mass scale
UpdLow(i) == [k \in 1..3 |-> upd_new_U[i][k] \div UpdHighScale]

\* C12 as stated: without limiter iterations and with tau <= tau_max every
\* row of new_U has positive density and positive internal energy
C12_Original ==
  (upd_pc = "done" /\ upd_in.k = 0) => \A i \in UpdDofs : UpdAdmissible(UpdLow(i))

(* C12, amended: without limiter iterations, with cfl <= 1 and tau <=       *)
(* tau_max, if every row of old_U has positive density and positive         *)
(* internal energy then so has every row of new_U that offered its tau to   *)
(* tau_max: the rows off the boundary, and the rows on it when              *)
(* cfl_with_boundary_dofs_ is set                                           *)
C12_InvariantDomain ==
  (upd_pc = "done" /\ upd_in.k = 0 /\ upd_in.cfl[1] <= upd_in.cfl[2]) =>
    \A i \in UpdOffering : UpdAdmissible(UpdLow(i))

\* a finished step with cfl = 1 and tau = tau_max on a segment whose boundary
\* rows did not offer their tau, that changed an offering row
C12_Witness ==
  /\ upd_pc = "done" /\ upd_in.k = 0
  /\ upd_in.cfl = <<1, 1>> /\ upd_in.tau = "tau_max"
  /\ UpdOffering # UpdDofs
  /\ \A i \in UpdDofs : UpdAdmissible(UpdOldU(i))
  /\ \E i \in UpdOffering : UpdLow(i) # [k \in 1..3 |-> upd_tau[2] * UpdMassScale * UpdOldU(i)[k]]

\* the rows whose tau enters the reduction: line 385 and line 412
OfferingRows ==
  {i \in OwnedRows : i \notin constrained /\ (i \notin boundary \/ cfl_with_boundary_dofs_)}

(* C21: a row offers tau_i = cfl * m_i / (-2 d_ii) to the reduction of       *)
(* tau_max if and only if it is owned, unconstrained and either absent from  *)
(* the boundary map or 'cfl with boundary dofs' is set; without the option   *)
(* tau_max is the least tau of the rows off the boundary, however small the  *)
(* tau of a boundary row is                                                  *)
C21_OfferingRows ==
  /\ qpc \in {"symm", "done"} =>
       \A i \in OwnedRows : offered[i] # 0 => (i \in OfferingRows /\ i \in row_taken)
  /\ qpc = "done" =>
       /\ \A i \in OfferingRows : offered[i] = TauOf(get_entry(i, 0))
       /\ DOMAIN offered = OwnedRows
       /\ ~cfl_with_boundary_dofs_ =>
            dij_tau_max = MinOf({Inf} \cup {TauOf(get_entry(i, 0)) :
                                             i \in (OwnedRows \ constrained) \ boundary})

\* the reduction is over, the option is off, and an unconstrained boundary
\* row has a tau below tau_max while another row offered its own
C21_Witness ==
  /\ qpc = "done"
  /\ ~cfl_with_boundary_dofs_
  /\ \E i \in boundary \ constrained :
       /\ i \in OwnedRows
       /\ offered[i] = 0
       /\ TauOf(get_entry(i, 0)) < dij_tau_max
  /\ \E i \in OwnedRows \ boundary : offered[i] = dij_tau_max

(* C22: component c of the local element i lies at the flat index           *)
(* i * n_comp + c: import_component(v, c) writes v_i there for every locally *)
(* owned i and leaves every other element unchanged, and an                  *)
(* export_component(w, c) after it gives w_i = v_i for every locally owned i *)
C22_ComponentLayout ==
  /\ mcv_last[1] = "import" =>
       \A k \in McvVectorRange :
         mcv_this[k] =
           IF k % mcv_cfg.n_comp = mcv_last[2] /\ k \div mcv_cfg.n_comp < mcv_cfg.n
             THEN mcv_v[k \div mcv_cfg.n_comp]
             ELSE mcv_prev[k]
  /\ (mcv_last[1] = "export" /\ mcv_imported[mcv_last[2]] # <<>>) =>
       \A i \in 0..(mcv_cfg.n - 1) : mcv_w[i] = mcv_imported[mcv_last[2]][i]

\* two components, two owned elements and a ghost: a component was imported,
\* the other one was imported after it, and the first was exported
C22_Witness ==
  /\ mcv_cfg.n_comp = 2 /\ mcv_cfg.n = 2 /\ mcv_cfg.g = 1
  /\ mcv_last = <<"export", 0>>
  /\ mcv_imported[0] # <<>> /\ mcv_imported[1] # <<>>
  /\ mcv_imported[0] # mcv_imported[1]
  /\ mcv_w[0] = mcv_imported[0][0] /\ mcv_w[1] = mcv_imported[0][1]

\* the iterations whose rows are sent by the exchange the payload starts: the
\* SIMD groups that begin below n_export_indices
ExportIters == {i \in SimdIters : i < n_export_indices}

(* C23: when the payload was run from inside check(), every thread of the    *)
(* team had finished all of its iterations for rows below n_export_indices   *)
(* and all of its iterations of the scalar loop                              *)
C23_ExportRowsFinished ==
  (tstage # <<>> /\ (fired_by = "check" \/ \E t \in Threads : tstage[t] = "fire")) =>
    /\ ExportIters \subseteq rowDone
    /\ ScalarIters \subseteq rowDone
    /\ \A t \in Threads : tpc[t] # "scalar"

\* the payload ran from check() in a team of two, each of which owned export
\* rows or scalar rows and counted itself ready once, while the region was
\* still running
C23_Witness ==
  /\ fired_by = "check"
  /\ dpc = "region"
  /\ num_threads = 2
  /\ ExportIters # {} /\ ScalarIters # {}
  /\ \A t \in Threads :
       /\ n_increments[t] = 1
       /\ \E i \in ExportIters \cup ScalarIters : owner[i] = t
  /\ \E t \in Threads : tpc[t] # "joined"

\* the symmetrized coefficient the first sweep applied, read after the swap
UpdFirstApplied(i, c) ==
  Min2(upd_lij_next[i][c], upd_lij_next[UpdColumns(i)[c]][UpdTransposed(i, c)])

\* the symmetrized limiter result of the first sweep
UpdSecondLimit(i, c) ==
  Min2(UpdLimit(i, c, 1), UpdLimit(UpdColumns(i)[c], UpdTransposed(i, c), 1))

\* the second sweep of the general path on row i: l_ij' applied to the
\* rewritten p_ij = (1 - l_ij) * p_ij
UpdGeneralSecond(i) ==
  [k \in 1..3 |->
     upd_new_U[i][k]
     + upd_tau[1] * (UpdMassScale \div UpdLumped(i))
       * (UpdLimScale \div (4 * 2))
       * UpdTotal([c \in UpdCols(i) |->
                    UpdSecondLimit(i, c)
                    * ((4 - UpdFirstApplied(i, c)) \div 2) * upd_pij[i][c][k]])]

(* C24: with two limiter steps the second sweep of the shortcut, which
   applies the stored (1 - l_ij) * l_ij' to the untouched p_ij, gives every
   row the new_U that the general path gives by applying l_ij' to
   (1 - l_ij) * p_ij, l_ij being the symmetrized coefficient of the first
   sweep. *)
C24_ShortcutEqualsGeneral ==
  [][(upd_pc = "sweep" /\ upd_in.k = 2 /\ upd_round = 1) =>
       \A i \in UpdDofs : upd_new_U'[i] = UpdGeneralSecond(i)]_vars

\* a finished step of two sweeps with an edge whose first coefficient was a
\* proper fraction, whose two limiter results of the second sweep differ and
\* whose second sweep changed new_U
C24_Witness ==
  /\ upd_pc = "done" /\ upd_in.k = 2
  /\ \E i \in UpdDofs : \E c \in UpdCols(i) :
       /\ UpdFirstApplied(i, c) = 2
       /\ UpdSecondLimit(i, c) > 0
       /\ UpdLimit(i, c, 1) # UpdLimit(UpdColumns(i)[c], UpdTransposed(i, c), 1)
       /\ upd_lij_next[i][c] # upd_lij_next[UpdColumns(i)[c]][UpdTransposed(i, c)]
       /\ upd_pij[i][c][1] # 0

\* the two one-sided estimates of the edge (i, col_idx)
EstimateOwn(p) == Estimate(p[1], Col(p[1], p[2]))
EstimateOther(p) == Estimate(Col(p[1], p[2]), p[1])

\* C25 as stated: after pass 2 every off-diagonal entry of an owned row is
\* the maximum of the two one-sided estimates of its edge
C25_Original ==
  qpc = "done" =>
    \A p \in OwnedEdges : get_entry(p[1], p[2]) = Max2(EstimateOwn(p), EstimateOther(p))

(* C25: after pass 2 an entry d_ij above the diagonal (j > i) is the
   one-sided estimate of row i, raised to the maximum of the two one-sided
   estimates when the edge is in coupling_boundary_pairs, and an entry
   below the diagonal (j < i) is a copy of d_ji. *)
C25_UpperThenCopy ==
  qpc = "done" =>
    \A p \in OwnedEdges :
      IF Col(p[1], p[2]) > p[1]
        THEN get_entry(p[1], p[2]) =
               IF p \in coupling_boundary_pairs
                 THEN Max2(EstimateOwn(p), EstimateOther(p))
                 ELSE EstimateOwn(p)
        ELSE get_entry(p[1], p[2]) = get_transposed_entry(p[1], p[2])

\* pass 2 finished with a coupling pair whose estimate of the other side is
\* the larger one, and with an edge outside the pairs whose entries stayed
\* below the larger of its two estimates
C25_Witness ==
  /\ qpc = "done"
  /\ \E p \in coupling_boundary_pairs :
       /\ Col(p[1], p[2]) > p[1]
       /\ EstimateOther(p) > EstimateOwn(p)
       /\ get_entry(p[1], p[2]) = EstimateOther(p)
  /\ \E p \in OwnedEdges \ coupling_boundary_pairs :
       /\ Col(p[1], p[2]) < n_owned
       /\ get_entry(p[1], p[2]) < Max2(EstimateOwn(p), EstimateOther(p))
       /\ get_transposed_entry(p[1], p[2]) = get_entry(p[1], p[2])

\* C26 as stated: the low-order update of a row is a finite value, also
\* when a stored d_ij of the row is zero
C26_FiniteLowOrder ==
  bar_pc = "done" => bar_U_i_new.cls = "finite"

\* a finished row with a zero d_ij
C26_ZeroEntry ==
  bar_pc = "done" /\ \E c \in BarColumns : BarD(c) = 0

\* C27 as stated: the diagonal column adds nothing to r_i and nothing to
\* the low-order update
C27_Original ==
  (bar_pc = "row" /\ bar_col = 1) =>
    /\ bar_r_i = 0
    /\ bar_U_i_new.cls = "finite"
    /\ bar_U_i_new.n = bar_U_i_new.d * BarU(0)

(* C27: the diagonal column adds nothing to r_i; to the low-order update
   it adds tau * m_i_inv * 2 * d_ii * U_i, its bar state being U_i, when
   d_ii is not zero, and makes it a NaN when d_ii is zero. *)
C27_DiagonalColumn ==
  (bar_pc = "row" /\ bar_col = 1) =>
    /\ bar_r_i = 0
    /\ IF BarD(0) = 0
         THEN bar_U_i_new.cls = "nan"
         ELSE /\ bar_U_i_new.cls = "finite"
              /\ bar_U_i_new.n * 4 =
                   bar_U_i_new.d * (4 * BarU(0) + bar_in.tau * 2 * BarD(0) * BarU(0))

\* the diagonal column of a boundary row (c_ii not zero) with a negative
\* d_ii has been added
C27_Witness ==
  /\ bar_pc = "row" /\ bar_col = 1
  /\ BarD(0) < 0 /\ bar_in.c[1] # 0 /\ bar_in.alpha_i > 0
  /\ bar_U_i_new.n # bar_U_i_new.d * BarU(0)

\* the rows a set of locations lies in
RowsOf(locs) == {loc[2] : loc \in locs}

(* C28: no loop of step() writes a location of a constrained row
   (row_length == 1): its precomputed values, alpha_, its entries of
   dij_matrix_, pij_matrix_, lij_matrix_ and lij_matrix_next_, r_, bounds_
   and new_U are written by no thread, and no thread reads them. *)
C28_ConstrainedRowUntouched ==
  \A t \in 1..num_threads :
    /\ RowsOf(race_w[t]) \cap constrained = {}
    /\ RowsOf(race_r[t]) \cap constrained = {}

\* the sweep of a step with limiter iterations in which the iteration of a
\* constrained row has run and another row was written
C28_Witness ==
  /\ race_phase = "sweep"
  /\ constrained \cap race_done # {}
  /\ \E t \in 1..num_threads : race_w[t] # {}

\* the bounds enclose what was accumulated
Encloses(b) ==
  /\ \A rho \in accumulated.rho : FLessEq(b.rho_min, Num(rho)) /\ FLessEq(Num(rho), b.rho_max)
  /\ FLessEq(b.s_min, Num(limiter_in.s_i))
  /\ \A s \in accumulated.s : FLessEq(b.s_min, Num(s))
  /\ b.gamma_min = limiter_in.gamma_min_i

(* C29: after reset(i) and any number of calls of accumulate, and before
   apply_relaxation, rho_min <= rho(bar state) <= rho_max for every
   accumulated bar state, s_min <= s_i, s_min <= s_j and
   s_min <= s(bar state) for every accumulated neighbour, gamma_min is the
   precomputed gamma_min of i, and a further accumulate only lowers rho_min
   and s_min and raises rho_max. *)
C29_BoundsEnclose ==
  [][limiter_pc' = "accumulate" =>
       /\ Encloses(bounds_)'
       /\ limiter_pc = "accumulate" =>
            /\ FLessEq(bounds_.rho_min', bounds_.rho_min)
            /\ FLessEq(bounds_.s_min', bounds_.s_min)
            /\ FLessEq(bounds_.rho_max, bounds_.rho_max')]_vars

\* two neighbours accumulated, the second of which lowered rho_min and s_min
\* below and raised rho_max above what the first had left
C29_Witness ==
  /\ limiter_pc = "accumulate" /\ n_accumulated = 2
  /\ Cardinality(accumulated.rho) = 2
  /\ FLess(bounds_.rho_min, bounds_.rho_max)
  /\ FLess(bounds_.s_min, Num(limiter_in.s_i))
  /\ Cardinality(accumulated.s) >= 2

\* a step of apply_relaxation on bounds that were accumulated, with
\* rho_min >= 0 and s_min >= 0 (every r_i of the model is >= 0)
RelaxesAccumulated ==
  /\ limiter_pc = "accumulate" /\ limiter_pc' = "relaxed"
  /\ n_accumulated >= 1
  /\ FLessEq(Num(0), bounds_.rho_min)
  /\ FLessEq(Num(0), bounds_.s_min)

\* the relaxed bounds are not inside the accumulated ones
Widened ==
  /\ FLessEq(bounds_.rho_min', bounds_.rho_min)
  /\ FLessEq(bounds_.s_min', bounds_.s_min)
  /\ FLessEq(bounds_.rho_max, bounds_.rho_max')
  /\ bounds_.gamma_min' = bounds_.gamma_min

\* C30 as stated: for r_i >= 0 and accumulated bounds with rho_min >= 0 and
\* s_min >= 0, apply_relaxation does not raise rho_min or s_min, does not
\* lower rho_max and leaves gamma_min unchanged
C30_Original ==
  [][RelaxesAccumulated => Widened]_vars

(* C30: for r_i >= 0 and accumulated bounds with rho_min >= 0 and
   s_min >= 0, and when moreover s_interp_max >= s_min, gamma_min > 1 and
   eos_interpolation_b * rho_max <= 1, apply_relaxation does not raise
   rho_min or s_min, does not lower rho_max and leaves gamma_min
   unchanged. *)
C30_WidensWithinCovolume ==
  [][(/\ RelaxesAccumulated
      /\ FLessEq(bounds_.s_min, relaxation.s_interp_max)
      /\ FLess(Num(1), bounds_.gamma_min)
      /\ FLessEq(FMul(Num(limiter_in.interpolation_b), bounds_.rho_max), Num(1)))
     => Widened]_vars

\* relaxed bounds, strictly wider on every side than two accumulated
\* neighbours whose densities and entropies differ, with gamma_min > 1
C30_Witness ==
  /\ limiter_pc = "relaxed" /\ n_accumulated = 2
  /\ FLess(Num(1), bounds_.gamma_min)
  /\ Cardinality(accumulated.rho) = 2 /\ Cardinality(accumulated.s) >= 2
  /\ \A rho \in accumulated.rho :
       /\ limiter_in.interpolation_b * rho <= 1
       /\ FLess(bounds_.rho_min, Num(rho)) /\ FLess(Num(rho), bounds_.rho_max)
  /\ \A s0 \in accumulated.s :
       /\ FLess(bounds_.s_min, Num(s0))
       /\ FLessEq(Num(s0), relaxation.s_interp_max)

(* C31: apply_relaxation limits the widening of both density bounds by
   rho_relaxation = |numerator| / (|denominator| + eps): the relaxed
   rho_min is not below the accumulated rho_min - rho_relaxation, and the
   relaxed rho_max is not above the accumulated rho_max + rho_relaxation
   and not above the covolume bound. *)
C31_RelaxationLimitsWidening ==
  [][RelaxesAccumulated =>
       /\ FLessEq(FAdd(bounds_.rho_min, FNeg(rho_relaxation)), bounds_.rho_min')
       /\ FLessEq(bounds_.rho_max', FAdd(bounds_.rho_max, rho_relaxation))
       /\ FLessEq(bounds_.rho_max', upper_bound)]_vars

\* relaxed bounds whose rho_max is above every accumulated density plus
\* rho_relaxation
C31_BeyondRelaxation ==
  /\ limiter_pc = "relaxed" /\ n_accumulated >= 1
  /\ \A rho \in accumulated.rho :
       FLess(FAdd(Num(rho), rho_relaxation), bounds_.rho_max)

\* the edge (i, col_idx) as the row with the smaller local index holds it
UpperEdge(i, c) == IF Col(i, c) > i THEN <<i, c>> ELSE <<Col(i, c), TransposedCol(i, c)>>

\* the value of the entry (i, col_idx) that follows from old_U and the
\* offline data alone
FreshEntry(i, c) ==
  LET p == UpperEdge(i, c) IN
  IF p \in coupling_boundary_pairs THEN Max2(EstimateOwn(p), EstimateOther(p))
  ELSE EstimateOwn(p)

RECURSIVE FreshSum(_, _)
FreshSum(i, c) == IF c = 0 THEN 0 ELSE FreshEntry(i, c) + FreshSum(i, c - 1)

\* the tau_max that follows from old_U and the offline data alone
FreshTauMax ==
  MinOf({Inf} \cup {TauOf(0 - FreshSum(i, row_length(i) - 1)) :
                      i \in {r \in OwnedRows \ constrained :
                               r \notin boundary \/ cfl_with_boundary_dofs_}})

(* C32: what step() returns does not depend on what earlier calls left in
   the transient storage: after pass 2 every entry of dij_matrix_ in an
   owned unconstrained row, below the diagonal and in
   coupling_boundary_pairs included, and tau_max are the values that follow
   from old_U and the offline data of this call, whatever dij_matrix_ held
   at entry. *)
C32_NoStaleEntry ==
  qpc = "done" =>
    /\ \A i \in OwnedRows \ constrained :
         /\ \A c \in OffDiag(i) : get_entry(i, c) = FreshEntry(i, c)
         /\ get_entry(i, 0) = 0 - FreshSum(i, row_length(i) - 1)
    /\ dij_tau_max = FreshTauMax

\* pass 2 finished; a row step() never writes still holds what the call
\* found, and an entry below the diagonal that the loop over
\* coupling_boundary_pairs read and wrote holds another value
C32_Witness ==
  /\ qpc = "done"
  /\ \E r \in AllRows \ (OwnedRows \ constrained) :
     \E p \in coupling_boundary_pairs :
       /\ Col(p[1], p[2]) < p[1]
       /\ get_entry(p[1], p[2]) # dij_matrix_[r][0]
       /\ dij_tau_max < Inf

\* what the passes of the current call have written so far
WrittenByCall == UNION {WrittenIn(passes_run[k]) : k \in 1..Len(passes_run)}

\* the place of the rank is inside step()
InsideStep == spc \notin {"constructed", "idle", "crashed", "parked"}

(* C33: step() writes neither old_U nor the stage states: at every point of
   a call, and so when it throws Restart or the fatal tau_max error, no
   pass that has run has written old_U, the stage states, cfl_ or the
   violation strategy, and the strategy holds the value of the entry;
   a call that throws Restart has written new_U and the transient matrices,
   a call that throws the fatal error has written dij_matrix_. *)
C33_ArgumentsUntouched ==
  [][InsideStep =>
       /\ id_violation_strategy_' = id_violation_strategy_
       /\ WrittenByCall' \cap {"old_U", "stage_U", "cfl_", "id_violation_strategy_"} = {}
       /\ result' = "restart" =>
            {"new_U", "dij_matrix_", "pij_matrix_", "lij_matrix_"} \subseteq WrittenByCall'
       /\ result' = "fatal" => "dij_matrix_" \in WrittenByCall']_vars

\* a call that threw Restart after a failed limit() call, with a sweep run
C33_Witness ==
  /\ result = "restart"
  /\ id_violation_strategy_ = "raise_exception"
  /\ failed_at # {}
  /\ "new_U" \in WrittenByCall
  /\ \E k \in 1..Len(passes_run) : passes_run[k] = "sweep"

(* C34: the ready counter of a SynchronizationDispatch never exceeds the
   team size and each thread increments it at most once per dispatch,
   whether thread_ready lives across the two loop calls (pass 0) or is
   created anew by each of them (the other passes): the second argument of
   check() is false for every index of the scalar loop, so a thread leaves
   the scalar loop with its flag unset and with no increment. *)
C34_ReadyCounterBounded ==
  /\ n_threads_ready <= num_threads
  /\ \A i \in ScalarIters : ~DispatchCondition(i)
  /\ \A t \in Threads :
       /\ n_increments[t] <= 1
       /\ tpc[t] = "scalar" => (~thread_ready[t] /\ n_increments[t] = 0)
       /\ thread_ready[t] => n_increments[t] = 1

\* a pass that creates thread_ready inside the lambda: both threads of the
\* team have run rows of the scalar loop and then incremented the counter
\* once each in the SIMD loop
C34_Witness ==
  /\ flag_scope = "loop" /\ num_threads = 2 /\ n_threads_ready = 2
  /\ \A t \in Threads :
       /\ n_increments[t] = 1
       /\ tpc[t] = "simd"
       /\ \E i \in ScalarIters \ constrained : owner[i] = t /\ i \in rowDone

\* the symmetrized coefficient of the edge (i, c) in sweep s, in units of 1/4
UpdSymmetrized(i, c, s) ==
  Min2(UpdLimit(i, c, s), UpdLimit(UpdColumns(i)[c], UpdTransposed(i, c), s))

\* 4^s times the product of 1 - l over the sweeps before sweep s
RECURSIVE UpdRemaining(_, _, _)
UpdRemaining(i, c, s) ==
  IF s = 0 THEN 1 ELSE (4 - UpdSymmetrized(i, c, s - 1)) * UpdRemaining(i, c, s - 1)

\* 4^k times 1 - prod_s (1 - l^(s)) over the k sweeps of the call
UpdFraction(i, c) == (4 ^ upd_in.k) - UpdRemaining(i, c, upd_in.k)

(* C35: for every k >= 1 and every edge (i, j), what the k sweeps together
   have added to new_U_i is the fraction 1 - prod_s (1 - l^(s)) of the
   pass-4 correction p_ij, with l^(s) the symmetrized coefficient of sweep
   s, and this fraction lies in [0, 1]. *)
C35_TotalFraction ==
  (upd_pc = "done" /\ upd_in.k >= 1) =>
    \A i \in UpdDofs :
      /\ \A c \in UpdCols(i) :
           /\ 0 <= UpdFraction(i, c) /\ UpdFraction(i, c) <= 4 ^ upd_in.k
           /\ (UpdLimScale * UpdFraction(i, c)) % (4 ^ upd_in.k) = 0
      /\ \A k \in 1..3 :
           upd_new_U[i][k] =
             UpdHighScale * UpdLowOrder(i)[k]
             + upd_tau[1] * (UpdMassScale \div UpdLumped(i))
               * UpdTotal([c \in UpdCols(i) |->
                    ((UpdLimScale * UpdFraction(i, c)) \div (4 ^ upd_in.k)) * UpdP(i, c)[k]])

\* three sweeps done; an edge with a correction that is not zero received
\* half of it in the first sweep and more in a later one, and less than all
\* of it in total
C35_Witness ==
  /\ upd_pc = "done" /\ upd_in.k = 3
  /\ \E i \in UpdDofs : \E c \in UpdCols(i) :
       /\ UpdSymmetrized(i, c, 0) = 2
       /\ UpdSymmetrized(i, c, 1) + UpdSymmetrized(i, c, 2) > 0
       /\ UpdFraction(i, c) < 4 ^ upd_in.k
       /\ \E k \in 1..3 : UpdP(i, c)[k] # 0

(* C36: create_vector_partitioner<n_comp> maps the index sets of the scalar
   partitioner componentwise: a scalar index i is locally owned
   (respectively a ghost) exactly when all indices i * n_comp + c with
   0 <= c < n_comp are locally owned (respectively ghosts) in the vector
   partitioner, the vector index space has n_comp times the scalar size,
   and no vector index is both owned and ghost. *)
C36_Componentwise ==
  part_pc = "done" =>
    /\ vector_partitioner.size = part_n_comp * scalar_partitioner.size
    /\ \A i \in PartIndices(scalar_partitioner.size) :
         /\ i \in scalar_partitioner.owned <=>
              \A c \in 0..(part_n_comp - 1) : (i * part_n_comp + c) \in vector_partitioner.owned
         /\ i \in scalar_partitioner.ghost <=>
              \A c \in 0..(part_n_comp - 1) : (i * part_n_comp + c) \in vector_partitioner.ghost
    /\ vector_partitioner.owned \cap vector_partitioner.ghost = {}
    /\ vector_owned_set \cap vector_ghost_set = {}
    /\ vector_partitioner.owned \cup vector_partitioner.ghost
         \subseteq PartIndices(vector_partitioner.size)

\* a vector partitioner of two components made from a scalar partitioner
\* with two owned indices, two ghost intervals and an index that is neither
C36_Witness ==
  /\ part_pc = "done" /\ part_n_comp = 2
  /\ Cardinality(scalar_partitioner.owned) = 2
  /\ Cardinality(IntervalsOf(scalar_partitioner.ghost)) = 2
  /\ Cardinality(vector_partitioner.owned) = 4
  /\ Cardinality(vector_partitioner.ghost) = 4
  /\ \E i \in PartIndices(scalar_partitioner.size) :
       i \notin (scalar_partitioner.owned \cup scalar_partitioner.ghost)

(* ------------------------------------------------------------------ *)
(* Specifications                                                     *)
(* ------------------------------------------------------------------ *)


DispatchInit == InitDispatch /\ ParkPattern /\ ParkStep /\ ParkRanks /\ ParkDij /\ ParkSweep /\ ParkExtra
SpecDispatch == DispatchInit /\ [][NextDispatch]_vars

StepInit == InitStep /\ ParkDispatch /\ ParkPattern /\ ParkRanks /\ ParkDij /\ ParkSweep /\ ParkExtra
SpecStep == StepInit /\ [][NextStep]_vars

RanksInit == InitRanks /\ ParkDispatch /\ ParkPattern /\ ParkStep /\ ParkDij /\ ParkSweep /\ ParkExtra
SpecRanks == RanksInit /\ [][NextRanks]_vars

DijInit == InitDij /\ ParkDispatchState /\ ParkStep /\ ParkRanks /\ ParkSweep /\ ParkExtra
SpecDij == DijInit /\ [][NextDij]_vars

SweepInit == InitSweep /\ ParkDispatchState /\ ParkStep /\ ParkRanks /\ ParkDij /\ ParkExtra
SpecSweep == SweepInit /\ [][NextSweep]_vars

PrepareInit == InitPrepare /\ ParkBc /\ ParkRace /\ ParkDispatch /\ ParkPattern /\ ParkStep /\ ParkRanks /\ ParkDij /\ ParkSweep /\ ParkUpd /\ ParkLate
SpecPrepare == PrepareInit /\ [][NextPrepare]_vars

BcInit == InitBc /\ ParkPrepare /\ ParkRace /\ ParkDispatch /\ ParkPattern /\ ParkStep /\ ParkRanks /\ ParkDij /\ ParkSweep /\ ParkUpd /\ ParkLate
SpecBc == BcInit /\ [][NextBc]_vars

\* the accesses do not depend on the values: the estimates and the old
\* entries of dij_matrix_ are fixed
RaceInit == InitDij /\ est_a = 0 /\ dij_matrix_ = Filled(0) /\ ~cfl_with_boundary_dofs_ /\ InitRace /\ ParkDispatchState /\ ParkStep /\ ParkRanks /\ ParkSweep /\ ParkPrepare /\ ParkBc /\ ParkUpd /\ ParkLate
SpecRace == RaceInit /\ [][NextRace]_vars

UpdInit == InitUpd /\ ParkDispatch /\ ParkPattern /\ ParkStep /\ ParkRanks /\ ParkDij /\ ParkSweep /\ ParkPrepare /\ ParkBc /\ ParkRace /\ ParkLate
SpecUpdate == UpdInit /\ [][NextUpd]_vars

\* the parts 1 to 9 parked
ParkEarly ==
  ParkDispatch /\ ParkPattern /\ ParkStep /\ ParkRanks /\ ParkDij /\ ParkSweep /\ ParkPrepare
  /\ ParkBc /\ ParkRace /\ ParkUpd

WideInit == InitDispatchWide /\ ParkPattern /\ ParkStep /\ ParkRanks /\ ParkDij /\ ParkSweep /\ ParkExtra
SpecDispatchWide == WideInit /\ [][NextDispatch]_vars

McvInit == InitMcv /\ ParkEarly /\ ParkBar /\ ParkLimiter /\ ParkPart

BarInit == InitBar /\ ParkEarly /\ ParkMcv /\ ParkLimiter /\ ParkPart
SpecBar == BarInit /\ [][NextBar]_vars

LimiterInit == InitLimiter /\ ParkEarly /\ ParkMcv /\ ParkBar /\ ParkPart
SpecLimiter == LimiterInit /\ [][NextLimiter]_vars
SpecMcv == McvInit /\ [][NextMcv]_vars

PartInit == InitPart /\ ParkEarly /\ ParkMcv /\ ParkBar /\ ParkLimiter
SpecPartitioner == PartInit /\ [][NextPart]_vars

====
